---- MODULE Spec2Model ----
(***************************************************************************)
(* Remote ID drone detection: the ASTM F3411 byte decoder                  *)
(* (src/src/remote_id_decoder.py), the BLE ingestor (src/src/ble_scanner.py)*)
(* and the Wi-Fi orchestrator (src/main_gnuradio_wifi.py).                 *)
(*                                                                         *)
(* Conventions.  A byte string is a sequence of integers 0..255; a Python  *)
(* str is a sequence of code points.  Offsets are 0-based as in the        *)
(* source (At, Slice).  An Optional value is None (<<>>) or Some(v)        *)
(* (<<v>>).  Floats are fixed-point integers: latitude/longitude in 1e-7   *)
(* degree, altitudes in cm, speeds in cm/s, direction in degrees,          *)
(* frequencies in MHz.                                                     *)
(***************************************************************************)
EXTENDS Integers, Sequences, FiniteSets, TLC

VARIABLES
    raw_data,       \* decoder: the byte buffer handed to a decoder method
    msgs,           \* decoder: how raw_data was laid out (list of messages)
    op,             \* decoder: the method applied to raw_data ("init" before)
    remote_id,      \* decoder: the method's result, None or Some(record)
    walk,           \* decoder: the parse loop run one iteration at a time:
                    \* [kind, offset, rec, ies, trace]
    pc,             \* orchestrator: "idle", or the input waiting for its handler
    packet_bytes,   \* orchestrator: the Wi-Fi frame handed to _process_wifi_pdu
    meta,           \* orchestrator: the frame's metadata, None or Some(<<type, subtype>>)
    ble_adv,        \* BLE: the advertisement handed to _handle_adv
    handled,        \* records the last handler passed to _handle_remote_id / _publish
    retried,        \* suffix offsets the last handler's tolerance scans decoded again
    published,      \* detections the last handler gave to publish_detection
    detection_count,\* GNURadioWiFiRemoteIDSystem.detection_count
    frame_counts,   \* GNURadioWiFiRemoteIDSystem.frame_counts
    frames,         \* inputs handled so far
    mqtt_connected, \* MQTTPublisher.connected
    plan_parts,     \* main: the parts args.scan_channels is written from
    scan_channels,  \* main: args.scan_channels
    channels_list,  \* main: channels_list, the frequencies given to the system
    hop_interval,   \* main: args.hop_interval
    plan_pc,        \* main: "args", "built" once the plan is built, then
                    \* "started" (system.start() runs) or "exited"
    exit_code,      \* main: None, or Some(code) once sys.exit(code) was called
    fused_remote_id,    \* fusion: fusion_result['remote_id'], None for the empty dict
    classification,     \* fusion: fusion_result['classification']
    threat_assessment,  \* fusion: None, or Some(result of _assess_threat)
    remote_id_data,     \* fusion: the remote_id_data argument, None or Some(to_dict())
    fusion_error,       \* fusion: None, or Some(exception fuse_detection_data raised)
    publish_calls,      \* publisher: the calls of publish_detection so far
    mqtt_log,           \* publisher: the messages given to client.publish, in order
    system_channels,    \* system: self.channels, the plan the hopper cycles
    include_5ghz,       \* system: the include_5ghz argument of the constructor
    running,            \* system: self.running
    center_freq,        \* radio: the centre frequency the USRP is tuned to
    freq,               \* system: self.freq
    hopper,             \* _channel_hopper: [pc, idx], pc "off" when not started
    hop_log,            \* the frequencies set_center_freq tuned to, in order
    msg_debug,          \* flow graph: stored frames, each the frequency it was captured at
    packet_thread,      \* _process_packets_thread: [pc, last_processed, num_messages, i]
    detections,         \* the detection_data built by _handle_remote_id, in order
    tb_state,           \* system: the flow graph self.tb: "none", "running", "stopped"
    late_detections,    \* records handled after stop() released the connection
    processed,          \* packet thread: the indices of the stored frames it handled, in order
    read_errors,        \* packet thread: the errors raised by the message store so far
    ble_running,        \* BLE scanner: self._running
    ble_thread,         \* BLE scan loop: [pc, scans], pc "off" before start()
    stop_pc,            \* AutoModeRIDOrchestrator: "off", "run", then the step of stop()
    scanner,            \* a BLERemoteIDScanner driven by its caller: [running, loops, caller],
                        \* loops the [pc, failed] of each thread start() created
    is_running,         \* acquisition: UHDAcquisition.is_running
    data_queue,         \* acquisition: UHDAcquisition.data_queue, oldest block first
    acquisition,        \* acquisition thread: [pc, block], block the number of its buffer
    overflows           \* acquisition: what each put on a full queue did

decVars == <<raw_data, msgs, op, remote_id, walk>>

rxVars == <<pc, packet_bytes, meta, ble_adv, handled, retried, published,
            detection_count, frame_counts, frames, mqtt_connected>>

planVars == <<plan_parts, scan_channels, channels_list, hop_interval, plan_pc, exit_code>>

fusionVars == <<fused_remote_id, classification, threat_assessment, remote_id_data,
                fusion_error>>

mqttVars == <<publish_calls, mqtt_log>>

runVars == <<system_channels, include_5ghz, running, center_freq, freq, hopper, hop_log, msg_debug,
             packet_thread, detections, tb_state, late_detections, processed, read_errors>>

stopVars == <<ble_running, ble_thread, stop_pc>>

\* the orchestrator's fields other than detection_count and the connection
rxOther == <<pc, packet_bytes, meta, ble_adv, handled, retried, published, frame_counts,
             frames>>

acqVars == <<is_running, data_queue, acquisition, overflows>>

auxVars == <<fusionVars, mqttVars, runVars, acqVars, stopVars, scanner>>

\* what the actions of one component leave alone
outsideFusion == <<decVars, rxVars, planVars, mqttVars, runVars, acqVars, stopVars, scanner>>
outsideMqtt == <<decVars, rxVars, planVars, fusionVars, runVars, acqVars, stopVars, scanner>>
outsideRunRx == <<decVars, planVars, fusionVars, mqttVars, acqVars, scanner>>
outsideAcq == <<decVars, rxVars, planVars, fusionVars, mqttVars, runVars, stopVars, scanner>>
outsideRun == <<rxVars, outsideRunRx, stopVars>>

vars == <<decVars, rxVars, planVars, auxVars>>

---------------------------------------------------------------------------
(* Optional values and Python primitives                                   *)

None == <<>>
Some(v) == <<v>>
Val(o) == o[1]

Min(a, b) == IF a < b THEN a ELSE b
Max(a, b) == IF a > b THEN a ELSE b

\* data[i] with a 0-based index
At(data, i) == data[i + 1]

\* data[a:b], clipped like a Python slice
Slice(data, a, b) == SubSeq(data, a + 1, Min(b, Len(data)))

\* data[a:]
SliceFrom(data, a) == SubSeq(data, a + 1, Len(data))

RECURSIVE Repeat(_, _)
Repeat(b, n) == IF n <= 0 THEN <<>> ELSE <<b>> \o Repeat(b, n - 1)

RECURSIVE Concat(_)
Concat(ss) == IF ss = <<>> THEN <<>> ELSE Head(ss) \o Concat(Tail(ss))

\* bytes.find(pat): the first 0-based offset of pat in data, -1 when absent
Find(data, pat) ==
    LET hits == {i \in 0..(Len(data) - Len(pat)) :
                    SubSeq(data, i + 1, i + Len(pat)) = pat}
    IN IF hits = {} THEN -1 ELSE CHOOSE i \in hits : \A j \in hits : i <= j

\* struct.unpack('b'), ('<h'), ('<i'): little-endian two's complement
S8(b) == IF b >= 128 THEN b - 256 ELSE b
S16(bs) == S8(bs[2]) * 256 + bs[1]
S32(bs) == S8(bs[4]) * 16777216 + (bs[3] * 65536 + bs[2] * 256 + bs[1])

\* struct.pack('<h'), ('<i')
P8(v) == v % 256
P16(v) == <<v % 256, (v \div 256) % 256>>
P32(v) == <<v % 256, (v \div 256) % 256, (v \div 65536) % 256, (v \div 16777216) % 256>>

---------------------------------------------------------------------------
(* bytes.decode('utf-8', errors='ignore'): a well-formed sequence gives    *)
(* one code point, any other byte is dropped.                              *)

IsCont(b) == 128 <= b /\ b <= 191

Utf8Len(b, i) ==
    LET n == Len(b)
        c == b[i]
    IN  IF c < 128 THEN 1
        ELSE IF 194 <= c /\ c <= 223 /\ i + 1 <= n /\ IsCont(b[i + 1]) THEN 2
        ELSE IF 224 <= c /\ c <= 239 /\ i + 2 <= n
                /\ (IF c = 224 THEN 160 <= b[i + 1] /\ b[i + 1] <= 191
                    ELSE IF c = 237 THEN 128 <= b[i + 1] /\ b[i + 1] <= 159
                    ELSE IsCont(b[i + 1]))
                /\ IsCont(b[i + 2]) THEN 3
        ELSE IF 240 <= c /\ c <= 244 /\ i + 3 <= n
                /\ (IF c = 240 THEN 144 <= b[i + 1] /\ b[i + 1] <= 191
                    ELSE IF c = 244 THEN 128 <= b[i + 1] /\ b[i + 1] <= 143
                    ELSE IsCont(b[i + 1]))
                /\ IsCont(b[i + 2]) /\ IsCont(b[i + 3]) THEN 4
        ELSE 0

Utf8Code(b, i, k) ==
    IF k = 1 THEN b[i]
    ELSE IF k = 2 THEN (b[i] - 192) * 64 + (b[i + 1] - 128)
    ELSE IF k = 3 THEN (b[i] - 224) * 4096 + (b[i + 1] - 128) * 64 + (b[i + 2] - 128)
    ELSE (b[i] - 240) * 262144 + (b[i + 1] - 128) * 4096
             + (b[i + 2] - 128) * 64 + (b[i + 3] - 128)

RECURSIVE Utf8From(_, _)
Utf8From(b, i) ==
    IF i > Len(b) THEN <<>>
    ELSE LET k == Utf8Len(b, i)
         IN IF k = 0 THEN Utf8From(b, i + 1)
            ELSE <<Utf8Code(b, i, k)>> \o Utf8From(b, i + k)

Utf8Ignore(b) == Utf8From(b, 1)

\* bytes.decode('ascii', errors='ignore')
AsciiIgnore(b) == SelectSeq(b, LAMBDA c : c < 128)

\* str.rstrip('\x00')
RECURSIVE RStripNul(_)
RStripNul(s) ==
    IF s # <<>> /\ s[Len(s)] = 0 THEN RStripNul(SubSeq(s, 1, Len(s) - 1)) ELSE s

IsPrintable(c) == 32 <= c /\ c <= 126

HexDigit(d) == IF d < 10 THEN 48 + d ELSE 55 + d

\* bytes.hex().upper()
RECURSIVE HexUpper(_)
HexUpper(b) ==
    IF b = <<>> THEN <<>>
    ELSE <<HexDigit(Head(b) \div 16), HexDigit(Head(b) % 16)>> \o HexUpper(Tail(b))

\* a printable decoder without the six-character floor
DecodePrintableShort(b) ==
    LET s == RStripNul(Utf8Ignore(b))
        printable == SelectSeq(s, IsPrintable)
    IN IF Len(printable) >= Len(s) \div 2 THEN printable ELSE HexUpper(b)

\* WiFiRemoteIDDecoder._decode_printable
DecodePrintable(b) ==
    LET s == RStripNul(Utf8Ignore(b))
        printable == SelectSeq(s, IsPrintable)
    IN IF Len(printable) >= Max(6, Len(s) \div 2) THEN printable ELSE HexUpper(b)

---------------------------------------------------------------------------
(* RemoteIDData and the ASTM F3411 message walk                            *)

MSG_TYPE_BASIC_ID == 0
MSG_TYPE_LOCATION == 1
MSG_TYPE_AUTH == 2
MSG_TYPE_SELF_ID == 3
MSG_TYPE_SYSTEM == 4
MSG_TYPE_OPERATOR_ID == 5

\* WiFiRemoteIDDecoder.ID_TYPES.get(id_type, "Unknown")
ID_TYPES(id_type) ==
    CASE id_type = 0 -> "None"
      [] id_type = 1 -> "Serial Number"
      [] id_type = 2 -> "CAA Registration ID"
      [] id_type = 3 -> "UTM UUID"
      [] id_type = 4 -> "Specific Session ID"
      [] OTHER -> "Unknown"

\* RemoteIDData(): every field absent (the timestamp is not modelled)
RemoteIDData ==
    [uas_id |-> None, uas_id_type |-> None,
     latitude |-> None, longitude |-> None,
     altitude_msl |-> None, height |-> None,
     speed |-> None, direction |-> None, vertical_speed |-> None,
     status |-> None, operator_id |-> None, self_id_text |-> None,
     auth_type |-> None, auth_page_index |-> None,
     auth_last_page_index |-> None, auth_payload |-> None,
     system_category |-> None, system_eu_class |-> None,
     system_operator_location_type |-> None]

\* the Basic-ID branch: the record and the offset after it (offset is past the type byte)
BasicIdStep(data, offset, rec) ==
    LET remaining == Len(data) - offset
    IN IF remaining >= 21
       THEN LET id_type == At(data, offset)
                uas_id_bytes == Slice(data, offset + 1, offset + 21)
                adv == IF remaining >= 23 /\ At(data, offset + 21) = 0
                          /\ At(data, offset + 22) = 0 THEN 23 ELSE 21
            IN [rec |-> [rec EXCEPT !.uas_id_type = Some(ID_TYPES(id_type)),
                                    !.uas_id = Some(DecodePrintable(uas_id_bytes))],
                offset |-> offset + adv, stop |-> FALSE]
       ELSE [rec |-> rec, offset |-> offset, stop |-> FALSE]

\* the Location/Vector branch
LocationStep(data, offset, rec) ==
    IF offset + 23 <= Len(data)
    THEN LET status == At(data, offset)
             direction == At(data, offset + 1)
             speed_encoded == At(data, offset + 2)
             vspeed_encoded == S8(At(data, offset + 3))
             lat_encoded == S32(Slice(data, offset + 4, offset + 8))
             lon_encoded == S32(Slice(data, offset + 8, offset + 12))
             alt_encoded == S16(Slice(data, offset + 12, offset + 14))
             height_encoded == S16(Slice(data, offset + 14, offset + 16))
         IN [rec |-> [rec EXCEPT
                 !.status = Some(IF status % 16 # 0 THEN "Airborne" ELSE "Ground"),
                 !.direction = IF direction # 255 THEN Some(direction) ELSE None,
                 !.speed = IF speed_encoded # 255 THEN Some(speed_encoded * 25) ELSE None,
                 !.vertical_speed =
                     IF vspeed_encoded # 127 THEN Some(vspeed_encoded * 50) ELSE None,
                 !.latitude = IF lat_encoded # 0 THEN Some(lat_encoded) ELSE @,
                 !.longitude = IF lon_encoded # 0 THEN Some(lon_encoded) ELSE @,
                 !.altitude_msl = IF alt_encoded # -1000 THEN Some(alt_encoded * 50) ELSE @,
                 !.height = IF height_encoded # -1000 THEN Some(height_encoded * 50) ELSE @],
             offset |-> offset + 23, stop |-> FALSE]
    ELSE [rec |-> rec, offset |-> offset, stop |-> FALSE]

\* the Authentication branch
AuthStep(data, offset, rec) ==
    IF offset + 4 <= Len(data)
    THEN LET a_len == At(data, offset + 3)
             off4 == offset + 4
         IN IF off4 + a_len <= Len(data)
            THEN [rec |-> [rec EXCEPT
                      !.auth_type = Some(At(data, offset)),
                      !.auth_page_index = Some(At(data, offset + 1)),
                      !.auth_last_page_index = Some(At(data, offset + 2)),
                      !.auth_payload = Some(Slice(data, off4, off4 + a_len))],
                  offset |-> off4 + a_len, stop |-> FALSE]
            ELSE [rec |-> rec, offset |-> off4, stop |-> TRUE]
    ELSE [rec |-> rec, offset |-> offset, stop |-> FALSE]

\* the Self-ID branch
SelfIdStep(data, offset, rec) ==
    IF offset + 24 <= Len(data)
    THEN [rec |-> [rec EXCEPT !.self_id_text =
                       Some(DecodePrintable(Slice(data, offset + 1, offset + 24)))],
          offset |-> offset + 24, stop |-> FALSE]
    ELSE [rec |-> rec, offset |-> offset, stop |-> TRUE]

\* the System branch
SystemStep(data, offset, rec) ==
    IF offset + 3 <= Len(data)
    THEN [rec |-> [rec EXCEPT
              !.system_operator_location_type = Some(At(data, offset)),
              !.system_eu_class = Some(At(data, offset + 1)),
              !.system_category = Some(At(data, offset + 2))],
          offset |-> offset + 3, stop |-> FALSE]
    ELSE [rec |-> rec, offset |-> offset, stop |-> TRUE]

\* the Operator-ID branch
OperatorIdStep(data, offset, rec) ==
    IF offset + 21 <= Len(data)
    THEN [rec |-> [rec EXCEPT !.operator_id =
                       Some(DecodePrintable(Slice(data, offset + 1, offset + 21)))],
          offset |-> offset + 21, stop |-> FALSE]
    ELSE [rec |-> rec, offset |-> offset, stop |-> FALSE]

\* one iteration of the while loop, entered with offset + 1 < len(data)
MessageStep(data, offset, rec) ==
    LET msg_type == At(data, offset)
        off1 == offset + 1
    IN CASE msg_type = MSG_TYPE_BASIC_ID -> BasicIdStep(data, off1, rec)
         [] msg_type = MSG_TYPE_LOCATION -> LocationStep(data, off1, rec)
         [] msg_type = MSG_TYPE_AUTH -> AuthStep(data, off1, rec)
         [] msg_type = MSG_TYPE_SELF_ID -> SelfIdStep(data, off1, rec)
         [] msg_type = MSG_TYPE_SYSTEM -> SystemStep(data, off1, rec)
         [] msg_type = MSG_TYPE_OPERATOR_ID -> OperatorIdStep(data, off1, rec)
         [] OTHER -> [rec |-> rec, offset |-> off1 + 1, stop |-> FALSE]

RECURSIVE Walk(_, _, _)

\* after one message: a break ends the walk, otherwise it goes on at the new offset
WalkOn(data, r) == IF r.stop THEN r.rec ELSE Walk(data, r.offset, r.rec)

\* the while loop of _parse_remote_id_messages
Walk(data, offset, rec) ==
    IF ~(offset < Len(data)) \/ offset + 1 >= Len(data) THEN rec
    ELSE WalkOn(data, MessageStep(data, offset, rec))

\* WiFiRemoteIDDecoder._parse_remote_id_messages(data, remote_id)
ParseRemoteIdMessages(data, rec) == Walk(data, 0, rec)

---------------------------------------------------------------------------
(* Pattern fallback and decode_from_raw_bytes                              *)

\* WiFiRemoteIDDecoder.ODID_OUI
ODID_OUI == <<250, 11, 188>>

\* WiFiRemoteIDDecoder.AUTHENTIC_PATTERNS, in dictionary order
AUTHENTIC_PATTERNS ==
    << [pattern_type |-> "dji_remote_id",
        patterns |-> << <<68, 74, 73, 45, 82, 73, 68, 45>>,   \* DJI-RID-
                        <<77, 65, 86, 73, 67>>,               \* MAVIC
                        <<77, 73, 78, 73>>,                   \* MINI
                        <<65, 73, 82>>,                       \* AIR
                        <<70, 80, 86>> >>],                   \* FPV
       [pattern_type |-> "astm_f3411",
        patterns |-> << <<13, 0>>, <<37, 0>>, <<26, 0>> >>],
       [pattern_type |-> "opendroneid",
        patterns |-> << <<250, 11, 188>> >>] >>

\* f"PATTERN_{pattern_type}"
PatternDefaultId(pattern_type) ==
    CASE pattern_type = "dji_remote_id" ->
            <<80, 65, 84, 84, 69, 82, 78, 95, 100, 106, 105, 95, 114, 101, 109, 111,
              116, 101, 95, 105, 100>>
      [] pattern_type = "astm_f3411" ->
            <<80, 65, 84, 84, 69, 82, 78, 95, 97, 115, 116, 109, 95, 102, 51, 52, 49, 49>>
      [] pattern_type = "opendroneid" ->
            <<80, 65, 84, 84, 69, 82, 78, 95, 111, 112, 101, 110, 100, 114, 111, 110,
              101, 105, 100>>

\* f"Pattern Detection ({pattern_type})"
PatternTypeName(pattern_type) ==
    CASE pattern_type = "dji_remote_id" -> "Pattern Detection (dji_remote_id)"
      [] pattern_type = "astm_f3411" -> "Pattern Detection (astm_f3411)"
      [] pattern_type = "opendroneid" -> "Pattern Detection (opendroneid)"

\* the body of the two for loops for one pattern that was found at offset
PatternHit(data, pattern_type, pattern, offset) ==
    LET remaining == SliceFrom(data, offset)
        id_end == Find(remaining, <<0>>)
    IN IF pattern_type = "dji_remote_id" /\ Len(remaining) >= 20 /\ id_end > Len(pattern)
       THEN [pattern_type |-> pattern_type, pattern |-> pattern, offset |-> offset,
             uas_id |-> Some(AsciiIgnore(Slice(remaining, 0, id_end)))]
       ELSE [pattern_type |-> pattern_type, pattern |-> pattern, offset |-> offset,
             uas_id |-> None]

RECURSIVE SearchFrom(_, _, _)
SearchFrom(data, t, p) ==
    IF t > Len(AUTHENTIC_PATTERNS) THEN None
    ELSE IF p > Len(AUTHENTIC_PATTERNS[t].patterns) THEN SearchFrom(data, t + 1, 1)
    ELSE LET pattern == AUTHENTIC_PATTERNS[t].patterns[p]
             offset == Find(data, pattern)
         IN IF offset # -1
            THEN Some(PatternHit(data, AUTHENTIC_PATTERNS[t].pattern_type, pattern, offset))
            ELSE SearchFrom(data, t, p + 1)

\* a search that skips the first pattern family
SearchPatternsSkipFirst(data) == SearchFrom(data, 2, 1)

\* WiFiRemoteIDDecoder.search_patterns_in_bytes
SearchPatternsInBytes(data) == SearchFrom(data, 1, 1)

\* str.strip() on the characters a uas_id can hold
IsSpace(c) == c \in {9, 10, 11, 12, 13, 28, 29, 30, 31, 32}

RECURSIVE LStrip(_)
LStrip(s) == IF s # <<>> /\ IsSpace(Head(s)) THEN LStrip(Tail(s)) ELSE s

RECURSIVE RStrip(_)
RStrip(s) == IF s # <<>> /\ IsSpace(s[Len(s)]) THEN RStrip(SubSeq(s, 1, Len(s) - 1)) ELSE s

Strip(s) == LStrip(RStrip(s))

\* Python truth value of an Optional str / Optional float
Truthy(o) == o # None /\ Val(o) # <<>>
TruthyNum(o) == o # None /\ Val(o) # 0

\* is_valid_id, local to decode_from_raw_bytes
IsValidId(uas_id) ==
    IF ~Truthy(uas_id) THEN FALSE
    ELSE LET cleaned == Strip(SelectSeq(Val(uas_id), LAMBDA c : c \notin {0, 48, 32, 45}))
         IN Len(cleaned) >= 3

\* the record filled from what search_patterns_in_bytes returned
FillFromPattern(rec, pattern_info) ==
    IF pattern_info # None
    THEN [rec EXCEPT
            !.uas_id = IF Val(pattern_info).uas_id # None
                       THEN Val(pattern_info).uas_id
                       ELSE Some(PatternDefaultId(Val(pattern_info).pattern_type)),
            !.uas_id_type = Some(PatternTypeName(Val(pattern_info).pattern_type))]
    ELSE rec

\* the pattern search runs when the structured pass gave no valid id and no latitude
PatternFallbackOf(rec, data) ==
    IF ~IsValidId(rec.uas_id) /\ ~TruthyNum(rec.latitude)
    THEN FillFromPattern(rec, SearchPatternsInBytes(data))
    ELSE rec

\* WiFiRemoteIDDecoder.decode_from_raw_bytes: always returns a record
DecodeFromRawBytes(data) ==
    PatternFallbackOf(ParseRemoteIdMessages(data, RemoteIDData), data)

---------------------------------------------------------------------------
(* 802.11 beacon parsing and the OpenDroneID vendor element                *)

RECURSIVE IEsFrom(_, _)
IEsFrom(ie_data, offset) ==
    IF ~(offset < Len(ie_data) - 2) THEN <<>>
    ELSE LET ie_id == At(ie_data, offset)
             ie_len == At(ie_data, offset + 1)
         IN IF offset + 2 + ie_len > Len(ie_data) THEN <<>>
            ELSE <<[id |-> ie_id, length |-> ie_len,
                    data |-> Slice(ie_data, offset + 2, offset + 2 + ie_len)]>>
                 \o IEsFrom(ie_data, offset + 2 + ie_len)

\* WiFiRemoteIDDecoder._parse_information_elements
ParseInformationElements(ie_data) == IEsFrom(ie_data, 0)

\* WiFiRemoteIDDecoder.parse_beacon_frame: None, or Some(the information elements)
ParseBeaconFrame(frame_bytes) ==
    IF Len(frame_bytes) < 36 THEN None
    ELSE Some(ParseInformationElements(SliceFrom(frame_bytes, 36)))

\* WiFiRemoteIDDecoder.parse_beacon_body
ParseBeaconBody(body_bytes) ==
    IF Len(body_bytes) < 12 THEN None
    ELSE Some(ParseInformationElements(SliceFrom(body_bytes, 12)))

\* the body of the for loop of extract_remote_id, with no OUI filter
VendorIeStepAnyOui(ie, rec) ==
    IF ie.id = 221 /\ Len(ie.data) > 4
    THEN ParseRemoteIdMessages(SliceFrom(ie.data, 4), rec)
    ELSE rec

\* the body of the for loop of extract_remote_id
VendorIeStep(ie, rec) ==
    IF ie.id = 221
    THEN IF Len(ie.data) < 4 THEN rec
         ELSE IF Slice(ie.data, 0, 3) # ODID_OUI THEN rec
         ELSE IF Len(ie.data) > 4
              THEN ParseRemoteIdMessages(SliceFrom(ie.data, 4), rec)
              ELSE rec
    ELSE rec

RECURSIVE FoldIEs(_, _)
FoldIEs(ies, rec) ==
    IF ies = <<>> THEN rec ELSE FoldIEs(Tail(ies), VendorIeStep(Head(ies), rec))

\* the end of extract_remote_id: the record when it has an id or a latitude
RecordOrNone(rec) ==
    IF Truthy(rec.uas_id) \/ TruthyNum(rec.latitude) THEN Some(rec) ELSE None

\* WiFiRemoteIDDecoder.extract_remote_id on the elements of a parsed beacon
ExtractRemoteId(ies) == RecordOrNone(FoldIEs(ies, RemoteIDData))

---------------------------------------------------------------------------
(* Input layouts.  A buffer is laid out as a list of messages; Encode      *)
(* gives its bytes.                                                        *)

\* bytes.ljust(20, b'\x00')
Pad20(chars) == chars \o Repeat(0, 20 - Len(chars))

Basic(id_type, id, pad) == [kind |-> "basic", id_type |-> id_type, id |-> id, pad |-> pad]

Loc(status, direction, speed, vspeed, lat, lon, alt, height, tail) ==
    [kind |-> "loc", status |-> status, direction |-> direction, speed |-> speed,
     vspeed |-> vspeed, lat |-> lat, lon |-> lon, alt |-> alt, height |-> height,
     tail |-> tail]

Bytes(bs) == [kind |-> "bytes", bytes |-> bs]

IE(id, oui, payload) == [kind |-> "ie", id |-> id, oui |-> oui, payload |-> payload]

RECURSIVE Encode(_)
EncodeMsg(m) ==
    CASE m.kind = "basic" -> <<MSG_TYPE_BASIC_ID, m.id_type>> \o m.id \o m.pad
      [] m.kind = "loc" ->
            <<MSG_TYPE_LOCATION, m.status, m.direction, m.speed, m.vspeed>>
            \o P32(m.lat) \o P32(m.lon) \o P16(m.alt) \o P16(m.height)
            \o Repeat(0, m.tail)
      [] m.kind = "bytes" -> m.bytes
      [] m.kind = "ie" ->
            LET value == m.oui \o Encode(m.payload)
            IN <<m.id, Len(value)>> \o value

Encode(ms) == IF ms = <<>> THEN <<>> ELSE EncodeMsg(Head(ms)) \o Encode(Tail(ms))

\* the 20-byte id fields tried
IdDjiTest == Pad20(<<68, 74, 73, 45, 84, 69, 83, 84, 45, 48, 48, 49>>)   \* DJI-TEST-001
IdZeros == Pad20(<<48, 48, 48, 48, 48, 48>>)                             \* 000000
IdDashes == Pad20(<<45, 45, 45, 45, 45, 45>>)                            \* ------
IdSpaces == Pad20(<<32, 32, 32, 32, 32, 32>>)
IdFive == Pad20(<<65, 66, 49, 50, 51>>)                                  \* AB123
IdSix == Pad20(<<65, 66, 67, 68, 69, 70>>)                               \* ABCDEF
IdNul == Pad20(<<>>)
IdCr == Pad20(<<13>>)
IdTwenty == <<65, 66, 67, 68, 69, 70, 71, 72, 73, 74, 75, 76, 77, 78, 79, 80, 81, 82, 83, 84>>
IdSparse == Pad20(<<65, 0, 66, 0, 67, 0, 68, 0, 69, 0, 70, 0, 1>>)       \* 6 printable of 13
IdAccent == Pad20(<<195, 169, 65, 66, 67, 68, 69, 70, 255>>)             \* e-acute ABCDEF 0xFF
IdBinary == <<1, 2, 3, 4, 5, 6, 7, 8, 65, 66, 67, 68, 69, 70, 71, 14, 15, 16, 17, 18>>

Ids == {IdDjiTest, IdZeros, IdDashes, IdSpaces, IdFive, IdSix, IdNul, IdCr, IdTwenty,
        IdSparse, IdAccent, IdBinary}

BasicLayouts ==
    {<<Basic(t, id, pad)>> : t \in 0..5, id \in Ids, pad \in {<<>>, <<0, 0>>}}

\* the raw field values tried in a Location/Vector message
LatValues == {0, 123585000, -1}
LonValues == {0, -15352000}
AltValues == {-1000, -999, 241}
HeightValues == {-1000, 90}
DirValues == {87, 254, 255}
SpeedValues == {49, 255}
VSpeedValues == {5, 127, 255}
StatusValues == {0, 1, 16}

\* one Location/Vector message with the 23 payload bytes the walk asks for
LocLayouts ==
    {<<Loc(st, d, sp, vs, la, lo, al, h, 7)>> :
        st \in StatusValues, d \in DirValues, sp \in SpeedValues, vs \in VSpeedValues,
        la \in LatValues, lo \in LonValues, al \in AltValues, h \in HeightValues}

\* create_test_remote_id_packet(): Basic-ID with 2 reserved bytes, then a
\* Location/Vector message whose payload ends with 5 reserved bytes
TestBasic == Basic(1, IdDjiTest, <<0, 0>>)
TestLoc == Loc(1, 87, 49, 5, 123585000, -15352000, 241, 90, 5)
TestPacketLayout == <<TestBasic, TestLoc>>

\* Scenario C and the ASTM test of test_pattern_detection.py
DjiRidText == <<68, 74, 73, 45, 82, 73, 68, 45, 77, 65, 86, 73, 67, 51, 80, 82, 79, 45,
                49, 50, 51, 52, 53>>
ScenarioC == <<Bytes(Repeat(0, 50) \o DjiRidText \o Repeat(0, 50))>>
AstmText == <<65, 83, 84, 77, 95, 68, 65, 84, 65, 95, 72, 69, 82, 69>>
AstmScenario == <<Bytes(Repeat(0, 30) \o <<13, 0>> \o AstmText \o Repeat(0, 30))>>

\* the messages combined into longer buffers
LibLoc == Loc(1, 87, 49, 5, 123585000, -15352000, 241, 90, 7)
Library ==
    {TestBasic, TestLoc,
     Basic(1, IdZeros, <<>>), Basic(0, IdSix, <<0, 0>>), Basic(2, IdBinary, <<>>),
     LibLoc,
     Loc(0, 255, 255, 127, 123585000, -15352000, -1000, -1000, 7),
     Loc(1, 10, 4, 255, 0, 0, 100, 40, 7),
     Bytes(<<255, 255>>), Bytes(<<77, 65, 86, 73, 67>>), Bytes(ODID_OUI)}

MaxMsgs == 2

RECURSIVE SeqsUpTo(_, _)
SeqsUpTo(S, n) ==
    IF n = 0 THEN {<<>>}
    ELSE LET shorter == SeqsUpTo(S, n - 1)
         IN shorter \cup {Append(q, x) : q \in shorter, x \in S}

MixedLayouts == SeqsUpTo(Library, MaxMsgs)

\* beacon bodies: 12 fixed bytes, then information elements
MS_OUI == <<0, 80, 242>>
BeaconFixed == Bytes(Repeat(0, 12))
VendorType == <<13>>

IELibrary ==
    {IE(221, ODID_OUI \o VendorType, <<TestBasic>>),
     IE(221, MS_OUI \o VendorType, <<TestBasic>>),
     IE(221, ODID_OUI \o VendorType, <<LibLoc>>),
     IE(221, MS_OUI \o VendorType, <<LibLoc>>),
     IE(221, ODID_OUI \o VendorType, <<>>),
     IE(221, <<250, 11>>, <<>>),
     IE(0, <<68, 74, 73>>, <<>>),
     IE(48, ODID_OUI \o VendorType, <<TestBasic>>)}

MaxIEs == 2

BeaconLayouts == {<<BeaconFixed>> \o q : q \in SeqsUpTo(IELibrary, MaxIEs)}

\* Authentication, Self-ID, System and Operator-ID messages, whole
OtherMessages ==
    {<<2, 1, 0, 0, 3, 7, 8, 9>>, <<3, 0>> \o Repeat(65, 23), <<4, 1, 2, 3>>,
     <<5, 0>> \o Repeat(79, 20)}

\* malformed buffers: empty, a lone type byte, unknown types, messages cut
\* short, an Authentication length that overruns the buffer, and element
\* headers with and without room for their value
MalformedBuffers ==
    {<<>>, <<0>>, <<1>>, <<9, 9, 9>>, <<255, 0>>,
     <<0, 4, 1, 2, 3>>, <<0, 1>> \o Repeat(65, 19),
     <<1, 4, 1, 2, 3>>, <<1>> \o Repeat(0, 22),
     <<2, 1, 0>>, <<2, 1, 0, 0, 200, 9>>,
     <<3, 0, 65, 4, 1, 2, 3>>, <<4, 5, 0>>, <<5, 0, 4, 7, 8, 9>>,
     <<221, 200, 1>>, <<221, 0, 221, 0>>, <<221, 1, 7>>, <<221, 1, 7, 0>>, <<0, 0, 0>>}

ByteLayouts == {<<Bytes(b)>> : b \in OtherMessages \cup MalformedBuffers}

DecoderInputs ==
    BasicLayouts \cup LocLayouts \cup MixedLayouts \cup BeaconLayouts
    \cup {TestPacketLayout, ScenarioC, AstmScenario} \cup ByteLayouts

---------------------------------------------------------------------------
(* The channel plan of main(): --scan-channels to a list of frequencies.   *)
(* Text is a sequence of one-character strings, a frequency is in MHz, an  *)
(* interval in tenths of a second. The text alphabet has no underscore.    *)

WhiteSpace == {" ", "\t", "\n"}

UpperCase == <<"A", "B", "C", "D", "E", "F", "G", "H", "I", "J", "K", "L", "M",
               "N", "O", "P", "Q", "R", "S", "T", "U", "V", "W", "X", "Y", "Z">>

LowerCase == <<"a", "b", "c", "d", "e", "f", "g", "h", "i", "j", "k", "l", "m",
               "n", "o", "p", "q", "r", "s", "t", "u", "v", "w", "x", "y", "z">>

DigitChars == <<"0", "1", "2", "3", "4", "5", "6", "7", "8", "9">>

\* str.lower()
LowerText(str) ==
    [i \in 1..Len(str) |->
        IF \E k \in 1..Len(UpperCase) : UpperCase[k] = str[i]
        THEN LowerCase[CHOOSE k \in 1..Len(UpperCase) : UpperCase[k] = str[i]]
        ELSE str[i]]

\* str.strip()
RECURSIVE LStripText(_)
LStripText(str) ==
    IF str # <<>> /\ Head(str) \in WhiteSpace THEN LStripText(Tail(str)) ELSE str

RECURSIVE RStripText(_)
RStripText(str) ==
    IF str # <<>> /\ str[Len(str)] \in WhiteSpace
    THEN RStripText(SubSeq(str, 1, Len(str) - 1)) ELSE str

StripText(str) == RStripText(LStripText(str))

\* sep in str
HasChar(str, sep) == \E i \in 1..Len(str) : str[i] = sep

\* the position of the first sep of a text that has one
FirstChar(str, sep) ==
    CHOOSE i \in 1..Len(str) : str[i] = sep /\ \A j \in 1..(i - 1) : str[j] # sep

\* str.split(sep)
RECURSIVE SplitText(_, _)
SplitText(str, sep) ==
    IF ~HasChar(str, sep) THEN <<str>>
    ELSE LET k == FirstChar(str, sep)
         IN <<SubSeq(str, 1, k - 1)>> \o SplitText(SubSeq(str, k + 1, Len(str)), sep)

\* str.split(sep, 1) of a text that has a sep
SplitFirst(str, sep) ==
    LET k == FirstChar(str, sep)
    IN <<SubSeq(str, 1, k - 1), SubSeq(str, k + 1, Len(str))>>

\* str.startswith(prefix)
StartsWith(str, prefix) ==
    Len(str) >= Len(prefix) /\ SubSeq(str, 1, Len(prefix)) = prefix

RECURSIVE DigitsValue(_, _)
DigitsValue(digits, acc) ==
    IF digits = <<>> THEN acc
    ELSE DigitsValue(Tail(digits),
             10 * acc + (CHOOSE d \in 0..9 : DigitChars[d + 1] = Head(digits)))

\* int(str): Some(value), or None where int() raises ValueError
IntOf(str) ==
    LET t == StripText(str)
        signed == t # <<>> /\ Head(t) \in {"+", "-"}
        digits == IF signed THEN Tail(t) ELSE t
    IN IF digits = <<>> \/ \E i \in 1..Len(digits) :
                               \A d \in 1..Len(DigitChars) : DigitChars[d] # digits[i]
       THEN None
       ELSE Some(IF signed /\ Head(t) = "-" THEN 0 - DigitsValue(digits, 0)
                 ELSE DigitsValue(digits, 0))

\* a 2.4 GHz channel centre one channel too high
ch_to_freq_2g_from_zero(ch) == 2412 + 5 * ch

ch_to_freq_2g(ch) == 2412 + 5 * (ch - 1)

ch_to_freq_5g(ch) == 5000 + 5 * ch

ChToFreq(band, ch) == IF band = 2 THEN ch_to_freq_2g(ch) ELSE ch_to_freq_5g(ch)

\* add_range_2g appends the channels of start..end that lie in 1..13
add_range_2g(channels, start, end) ==
    LET chs == [k \in 1..Max(0, end - start + 1) |-> start + k - 1]
        kept == SelectSeq(chs, LAMBDA ch : 1 <= ch /\ ch <= 13)
    IN channels \o [k \in 1..Len(kept) |-> ch_to_freq_2g(kept[k])]

add_list_5g(channels, lst) ==
    channels \o [k \in 1..Len(lst) |-> ch_to_freq_5g(lst[k])]

COMMON_5G == <<36, 40, 44, 48, 149, 153, 157, 161>>

\* the plan taken when the expression raises
FALLBACK_PLAN == <<2412, 2437, 2462>>

\* for tok in rng.split('/'): if tok: append the frequency of int(tok)
RECURSIVE AddTokens(_, _, _)
AddTokens(channels, toks, band) ==
    IF toks = <<>> THEN Some(channels)
    ELSE IF Head(toks) = <<>> THEN AddTokens(channels, Tail(toks), band)
    ELSE LET c == IntOf(Head(toks))
         IN IF c = None THEN None
            ELSE AddTokens(Append(channels, ChToFreq(band, Val(c))), Tail(toks), band)

\* a, b = rng.split('-', 1) with int(a), int(b)
RangeOf(rng) ==
    LET halves == SplitFirst(rng, "-")
        a == IntOf(halves[1])
        b == IntOf(halves[2])
    IN IF a = None \/ b = None THEN None ELSE Some(<<Val(a), Val(b)>>)

\* range(a, b + 1, 4)
Step4(a, b) == [k \in 1..(IF b >= a THEN (b - a) \div 4 + 1 ELSE 0) |-> a + 4 * (k - 1)]

\* one turn of "for p in parts": Some(channels_list), or None where it raises
AddPart(channels, p) ==
    IF StartsWith(p, <<"2", "g", ":">>)
    THEN LET rng == SubSeq(p, 4, Len(p))
         IN IF HasChar(rng, "-")
            THEN LET r == RangeOf(rng)
                 IN IF r = None THEN None
                    ELSE Some(add_range_2g(channels, Val(r)[1], Val(r)[2]))
            ELSE AddTokens(channels, SplitText(rng, "/"), 2)
    ELSE IF StartsWith(p, <<"5", "g", ":">>)
    THEN LET rng == SubSeq(p, 4, Len(p))
         IN IF rng = <<"c", "o", "m", "m", "o", "n">>
            THEN Some(add_list_5g(channels, COMMON_5G))
            ELSE IF HasChar(rng, "-")
            THEN LET r == RangeOf(rng)
                 IN IF r = None THEN None
                    ELSE Some(add_list_5g(channels, Step4(Val(r)[1], Val(r)[2])))
            ELSE AddTokens(channels, SplitText(rng, "/"), 5)
    ELSE LET c == IntOf(p)
         IN IF c = None THEN None ELSE Some(Append(channels, ch_to_freq_2g(Val(c))))

RECURSIVE AddParts(_, _)
AddParts(channels, parts) ==
    IF parts = <<>> THEN Some(channels)
    ELSE LET r == AddPart(channels, Head(parts))
         IN IF r = None THEN None ELSE AddParts(Val(r), Tail(parts))

\* sorted(set(channels_list))
RECURSIVE SortedOf(_)
SortedOf(S) ==
    IF S = {} THEN <<>>
    ELSE LET m == CHOOSE x \in S : \A y \in S : x <= y
         IN <<m>> \o SortedOf(S \ {m})

Elements(seq) == {seq[i] : i \in 1..Len(seq)}

\* channels_list as main() builds it from args.scan_channels
ChannelsList(scan) ==
    LET channels_arg == LowerText(StripText(scan))
    IN IF channels_arg = <<>> THEN <<>>
       ELSE IF channels_arg = <<"a", "l", "l">>
       THEN add_list_5g(add_range_2g(<<>>, 1, 13), COMMON_5G)
       ELSE LET stripped == [i \in 1..Len(SplitText(channels_arg, ",")) |->
                                StripText(SplitText(channels_arg, ",")[i])]
                parts == SelectSeq(stripped, LAMBDA p : p # <<>>)
                r == AddParts(<<>>, parts)
            IN IF r = None THEN FALLBACK_PLAN ELSE SortedOf(Elements(Val(r)))

\* args.hop_interval after the adjustment for 'all'
HopInterval(scan, interval) ==
    IF LowerText(StripText(scan)) = <<"a", "l", "l">> /\ interval < 70 THEN 70 ELSE interval

---------------------------------------------------------------------------
(* Channel-plan expressions: parts, and the text they are written as       *)

RECURSIVE DigitsOf(_)
DigitsOf(n) ==
    IF n < 10 THEN <<DigitChars[n + 1]>> ELSE Append(DigitsOf(n \div 10), DigitChars[(n % 10) + 1])

NumberText(n) == IF n < 0 THEN <<"-">> \o DigitsOf(0 - n) ELSE DigitsOf(n)

RECURSIVE JoinText(_, _)
JoinText(texts, sep) ==
    IF texts = <<>> THEN <<>>
    ELSE IF Len(texts) = 1 THEN texts[1]
    ELSE texts[1] \o <<sep>> \o JoinText(Tail(texts), sep)

BandPrefix(band) == IF band = 2 THEN <<"2", "g", ":">> ELSE <<"5", "g", ":">>

Channel(ch) == [kind |-> "ch", ch |-> ch]
Range(band, a, b) == [kind |-> "range", band |-> band, a |-> a, b |-> b]
List(band, chs, sep) == [kind |-> "list", band |-> band, chs |-> chs, sep |-> sep]
Common == [kind |-> "common"]
All == [kind |-> "all"]
Text(text) == [kind |-> "text", text |-> text]

PartText(part) ==
    CASE part.kind = "ch" -> NumberText(part.ch)
      [] part.kind = "range" ->
            BandPrefix(part.band) \o NumberText(part.a) \o <<"-">> \o NumberText(part.b)
      [] part.kind = "list" ->
            BandPrefix(part.band)
               \o JoinText([k \in 1..Len(part.chs) |-> NumberText(part.chs[k])], part.sep)
      [] part.kind = "common" -> <<"5", "g", ":", "c", "o", "m", "m", "o", "n">>
      [] part.kind = "all" -> <<"a", "l", "l">>
      [] part.kind = "text" -> part.text

PlanText(parts) == JoinText([k \in 1..Len(parts) |-> PartText(parts[k])], ",")

PartLibrary ==
    {Channel(1), Channel(6), Channel(11), Channel(14), Channel(40), Channel(-3),
     Range(2, 1, 3), Range(2, 1, 13), Range(2, 12, 15), Range(2, 3, 1),
     Range(5, 36, 48), Range(5, 149, 161),
     List(2, <<1, 6>>, "/"), List(2, <<3>>, "/"), List(5, <<36, 40>>, "/"),
     List(5, <<36, 40, 44, 48>>, ","), List(2, <<2, 7>>, ","),
     Common, All,
     Text(<<"x">>), Text(<<"2", "g", ":">>), Text(<<" ", "6", " ">>),
     Text(<<"2", "G", ":", "3">>), Text(<<"2", "g", ":", "1", "-">>),
     Text(<<"5", "g", ":", "3", "6", "-", "x">>), Text(<<>>),
     Text(<<"5", "g", ":", "3", "6", "/", "/", "4", "4">>), Text(<<" ", "A", "L", "L", " ">>)}

MaxParts == 2

\* the default of --scan-channels
DefaultPlan == <<Channel(1), Channel(6), Channel(11)>>

\* the advanced form the help of --scan-channels documents
DocumentedPlan == <<Range(2, 1, 13), List(5, <<36, 40, 44, 48>>, ",")>>

PlanInputs == SeqsUpTo(PartLibrary, MaxParts) \cup {DefaultPlan}

\* values of --hop-interval
HopIntervals == {20, 70}

\* no detection has been given to the fusion module
FusionIdle ==
    /\ fused_remote_id = None
    /\ classification = [is_valid |-> TRUE]
    /\ threat_assessment = None
    /\ remote_id_data = None
    /\ fusion_error = None

\* nothing has been given to the publisher
PublisherIdle ==
    /\ publish_calls = <<>>
    /\ mqtt_log = <<>>

\* the system constructed by default and not started
RunIdle ==
    /\ system_channels = <<2412, 2437, 2462>>
    /\ include_5ghz = FALSE
    /\ running = FALSE
    /\ center_freq = 2437
    /\ freq = 2437
    /\ hopper = [pc |-> "off", idx |-> 0]
    /\ hop_log = <<>>
    /\ msg_debug = <<>>
    /\ packet_thread = [pc |-> "off", last_processed |-> 0, num_messages |-> 0, i |-> 0]
    /\ detections = <<>>
    /\ tb_state = "none"
    /\ late_detections = 0
    /\ processed = <<>>
    /\ read_errors = 0

\* no BLE scanner started, stop() not called
StopIdle ==
    /\ ble_running = FALSE
    /\ ble_thread = [pc |-> "off", scans |-> 0, handled |-> 0, failures |-> 0, delays |-> <<>>]
    /\ stop_pc = "off"
    /\ scanner = [running |-> FALSE, loops |-> <<>>, caller |-> "idle"]

\* UHDAcquisition as constructed
AcqIdle ==
    /\ is_running = FALSE
    /\ data_queue = <<>>
    /\ acquisition = [pc |-> "off", block |-> 0]
    /\ overflows = <<>>

AuxIdle == FusionIdle /\ PublisherIdle /\ RunIdle /\ AcqIdle /\ StopIdle

\* main() run with the default arguments
PlanIdle ==
    /\ plan_parts = DefaultPlan
    /\ scan_channels = PlanText(DefaultPlan)
    /\ channels_list = ChannelsList(PlanText(DefaultPlan))
    /\ hop_interval = 70
    /\ plan_pc = "built"
    /\ exit_code = None

---------------------------------------------------------------------------
(* The decoder's methods applied to a buffer                               *)

\* the orchestrator before any frame, as GNURadioWiFiRemoteIDSystem.__init__ leaves it
RxIdle ==
    /\ pc = "idle"
    /\ packet_bytes = <<>>
    /\ meta = None
    /\ ble_adv = [service_data |-> <<>>, manufacturer_data |-> <<>>]
    /\ handled = <<>>
    /\ retried = <<>>
    /\ published = <<>>
    /\ detection_count = 0
    /\ frame_counts = [mgmt_beacon |-> 0, mgmt_action |-> 0, mgmt_probe_resp |-> 0,
                       ctrl |-> 0, data |-> 0, other |-> 0]
    /\ frames = 0

\* no parse loop under way
NoWalk == [kind |-> "none", offset |-> 0, rec |-> RemoteIDData, ies |-> <<>>, trace |-> <<>>]

\* the decoder with nothing decoded
DecoderIdle ==
    /\ msgs = <<>>
    /\ raw_data = <<>>
    /\ op = "init"
    /\ remote_id = None
    /\ walk = NoWalk

InitDecoder ==
    /\ msgs \in DecoderInputs
    /\ raw_data = Encode(msgs)
    /\ op = "init"
    /\ remote_id = None
    /\ walk = NoWalk
    /\ RxIdle
    /\ mqtt_connected = FALSE
    /\ PlanIdle
    /\ AuxIdle

\* _parse_remote_id_messages(raw_data, RemoteIDData())
ParseMessages ==
    /\ op = "init"
    /\ op' = "parse"
    /\ remote_id' = Some(ParseRemoteIdMessages(raw_data, RemoteIDData))
    /\ UNCHANGED <<raw_data, msgs, walk, rxVars, planVars, auxVars>>

\* decode_from_raw_bytes(raw_data)
DecodeRaw ==
    /\ op = "init"
    /\ op' = "decode"
    /\ remote_id' = Some(DecodeFromRawBytes(raw_data))
    /\ UNCHANGED <<raw_data, msgs, walk, rxVars, planVars, auxVars>>

\* extract_remote_id(parse_beacon_body(raw_data))
ExtractBeacon ==
    /\ op = "init"
    /\ ParseBeaconBody(raw_data) # None
    /\ op' = "extract"
    /\ remote_id' = ExtractRemoteId(Val(ParseBeaconBody(raw_data)))
    /\ UNCHANGED <<raw_data, msgs, walk, rxVars, planVars, auxVars>>

\* the highest index one iteration of the while loop of
\* _parse_remote_id_messages subscripts or slices up to, the iteration
\* entered at offset with offset + 1 < len(data)
LastRead(data, offset) ==
    LET msg_type == At(data, offset)
        off1 == offset + 1
        n == Len(data)
    IN CASE msg_type = MSG_TYPE_BASIC_ID ->
               IF n - off1 >= 23 THEN (IF At(data, off1 + 21) = 0 THEN off1 + 22 ELSE off1 + 21)
               ELSE IF n - off1 >= 21 THEN off1 + 20
               ELSE offset
         [] msg_type = MSG_TYPE_LOCATION -> IF off1 + 23 <= n THEN off1 + 15 ELSE offset
         [] msg_type = MSG_TYPE_AUTH ->
               IF off1 + 4 <= n
               THEN (IF off1 + 4 + At(data, off1 + 3) <= n
                     THEN off1 + 3 + At(data, off1 + 3) ELSE off1 + 3)
               ELSE offset
         [] msg_type = MSG_TYPE_SELF_ID -> IF off1 + 24 <= n THEN off1 + 23 ELSE offset
         [] msg_type = MSG_TYPE_SYSTEM -> IF off1 + 3 <= n THEN off1 + 2 ELSE offset
         [] msg_type = MSG_TYPE_OPERATOR_ID -> IF off1 + 21 <= n THEN off1 + 20 ELSE offset
         [] OTHER -> offset

\* one entry of the trace of a parse loop: the offset at the head of the
\* iteration, the offset after it, the highest index read, and whether the
\* iteration left the loop by break
Iteration(head, next, last_read, stop) ==
    [head |-> head, next |-> next, last_read |-> last_read, stop |-> stop]

\* _parse_remote_id_messages(raw_data, RemoteIDData()) is entered: offset = 0
StartMessageWalk ==
    /\ op = "init"
    /\ op' = "walk"
    /\ walk' = [NoWalk EXCEPT !.kind = "messages"]
    /\ UNCHANGED <<raw_data, msgs, remote_id, rxVars, planVars, auxVars>>

\* the tests at the head of the while loop of _parse_remote_id_messages
MessageLoopGoesOn(data, offset) == offset < Len(data) /\ ~(offset + 1 >= Len(data))

\* the walk after the iteration whose outcome is r
AfterIteration(r) ==
    [walk EXCEPT !.offset = r.offset,
                 !.rec = r.rec,
                 !.trace = Append(@, Iteration(walk.offset, r.offset,
                                               LastRead(raw_data, walk.offset), r.stop))]

\* one iteration of the while loop of _parse_remote_id_messages; a break
\* returns
MessageIteration ==
    /\ op = "walk" /\ walk.kind = "messages"
    /\ MessageLoopGoesOn(raw_data, walk.offset)
    /\ walk' = AfterIteration(MessageStep(raw_data, walk.offset, walk.rec))
    /\ op' = IF walk'.trace[Len(walk'.trace)].stop THEN "walked" ELSE "walk"
    /\ remote_id' = IF op' = "walked" THEN Some(walk'.rec) ELSE remote_id
    /\ UNCHANGED <<raw_data, msgs, rxVars, planVars, auxVars>>

\* the while condition of either loop is false: the function returns
WalkReturns ==
    /\ op = "walk"
    /\ IF walk.kind = "messages" THEN ~MessageLoopGoesOn(raw_data, walk.offset)
       ELSE ~(walk.offset < Len(raw_data) - 2)
    /\ op' = "walked"
    /\ remote_id' = IF walk.kind = "messages" THEN Some(walk.rec) ELSE remote_id
    /\ UNCHANGED <<raw_data, msgs, walk, rxVars, planVars, auxVars>>

\* _parse_information_elements(raw_data) is entered: ies = [], offset = 0
StartElementWalk ==
    /\ op = "init"
    /\ op' = "walk"
    /\ walk' = [NoWalk EXCEPT !.kind = "elements"]
    /\ UNCHANGED <<raw_data, msgs, remote_id, rxVars, planVars, auxVars>>

\* the iteration without the test that the element fits in the buffer
ElementStepNoBreak(ie_data, offset) ==
    LET ie_id == At(ie_data, offset)
        ie_len == At(ie_data, offset + 1)
    IN [ies |-> <<[id |-> ie_id, length |-> ie_len,
                   data |-> Slice(ie_data, offset + 2, offset + 2 + ie_len)]>>,
        offset |-> offset + 2 + ie_len, last_read |-> offset + 1 + ie_len,
        stop |-> FALSE]

\* one iteration of the while loop of _parse_information_elements: the
\* element is appended and the offset moves past it, or the loop breaks on
\* an element longer than the rest of the buffer
ElementStep(ie_data, offset) ==
    LET ie_id == At(ie_data, offset)
        ie_len == At(ie_data, offset + 1)
    IN IF offset + 2 + ie_len > Len(ie_data)
       THEN [ies |-> <<>>, offset |-> offset, last_read |-> offset + 1, stop |-> TRUE]
       ELSE [ies |-> <<[id |-> ie_id, length |-> ie_len,
                        data |-> Slice(ie_data, offset + 2, offset + 2 + ie_len)]>>,
             offset |-> offset + 2 + ie_len, last_read |-> offset + 1 + ie_len,
             stop |-> FALSE]

\* the walk after the element iteration whose outcome is r
AfterElement(r) ==
    [walk EXCEPT !.offset = r.offset,
                 !.ies = @ \o r.ies,
                 !.trace = Append(@, Iteration(walk.offset, r.offset, r.last_read, r.stop))]

ElementIteration ==
    /\ op = "walk" /\ walk.kind = "elements"
    /\ walk.offset < Len(raw_data) - 2
    /\ walk' = AfterElement(ElementStep(raw_data, walk.offset))
    /\ op' = IF walk'.trace[Len(walk'.trace)].stop THEN "walked" ELSE "walk"
    /\ UNCHANGED <<raw_data, msgs, remote_id, rxVars, planVars, auxVars>>

NextDecoder ==
    \/ ParseMessages
    \/ DecodeRaw
    \/ ExtractBeacon
    \/ StartMessageWalk
    \/ MessageIteration
    \/ StartElementWalk
    \/ ElementIteration
    \/ WalkReturns

SpecDecoder == InitDecoder /\ [][NextDecoder]_vars

---------------------------------------------------------------------------
(* Properties of the decoder (SpecDecoder)                                 *)

\* C23: for every input the loops of _parse_remote_id_messages and of
\* _parse_information_elements read no byte past the end of the input, and
\* every iteration either leaves the loop or moves the offset forward, so
\* that they return after at most len(data) iterations; the loop run step
\* by step returns what the function returns.
ParseLoopsTerminate ==
    /\ Len(walk.trace) <= Len(raw_data)
    /\ \A k \in 1..Len(walk.trace) :
          /\ walk.trace[k].head < Len(raw_data)
          /\ walk.trace[k].last_read < Len(raw_data)
          /\ walk.trace[k].stop \/ walk.trace[k].next > walk.trace[k].head
          /\ walk.trace[k].stop => k = Len(walk.trace)
    /\ (op = "walked" /\ walk.kind = "messages")
          => walk.rec = ParseRemoteIdMessages(raw_data, RemoteIDData)
    /\ (op = "walked" /\ walk.kind = "elements")
          => walk.ies = ParseInformationElements(raw_data)

\* the bytes a message of this type takes after its type byte, the
\* Authentication message its 4 header bytes and, when these are there, the
\* payload length they announce
PayloadLength(data, head) ==
    LET msg_type == At(data, head)
    IN CASE msg_type = MSG_TYPE_BASIC_ID -> 21
         [] msg_type = MSG_TYPE_LOCATION -> 23
         [] msg_type = MSG_TYPE_AUTH ->
               IF head + 5 <= Len(data) THEN 4 + At(data, head + 4) ELSE 4
         [] msg_type = MSG_TYPE_SELF_ID -> 24
         [] msg_type = MSG_TYPE_SYSTEM -> 3
         [] msg_type = MSG_TYPE_OPERATOR_ID -> 21
         [] OTHER -> 0

\* the message whose type byte is at head extends past the end of the input
IsTruncated(data, head) == head + 1 + PayloadLength(data, head) > Len(data)

\* C30: in _parse_remote_id_messages a message of any type whose payload
\* would extend past the end of the input ends the walk: no iteration
\* follows it, so none of its payload bytes is read as a message type.
TruncatedMessageEndsWalk ==
    walk.kind = "messages"
    => \A k \in 1..(Len(walk.trace) - 1) : ~IsTruncated(raw_data, walk.trace[k].head)

\* both loops have returned on malformed input: a Basic-ID message cut short
\* walked in two iterations, an element longer than the buffer
ParseLoopsWitness ==
    /\ op = "walked"
    /\ \/ walk.kind = "messages" /\ raw_data = <<0, 4, 1, 2, 3>> /\ Len(walk.trace) = 2
       \/ walk.kind = "elements" /\ raw_data = <<221, 200, 1>> /\ Len(walk.trace) = 1

Rid == Val(remote_id)

\* the same record field by field, from the raw values of a Location/Vector layout
ScaledCm(raw) == raw * 50

\* C2: round trip. For a Basic-ID message followed by a Location/Vector
\* message in the layout of create_test_remote_id_packet (type byte, status,
\* direction, speed, vertical speed, lat, lon, alt, height, 5 reserved
\* bytes), decode_from_raw_bytes returns the id, position, altitudes, speed,
\* direction, vertical speed and status that were encoded.
RoundTripTestLayout ==
    (op = "decode" /\ Len(msgs) = 2 /\ msgs[1].kind = "basic" /\ msgs[1].pad = <<0, 0>>
        /\ msgs[1].id = IdDjiTest /\ msgs[2].kind = "loc" /\ msgs[2].tail = 5)
    => LET l == msgs[2]
       IN /\ Rid.uas_id = Some(<<68, 74, 73, 45, 84, 69, 83, 84, 45, 48, 48, 49>>)
          /\ Rid.latitude = Some(l.lat)
          /\ Rid.longitude = Some(l.lon)
          /\ Rid.altitude_msl = Some(ScaledCm(l.alt))
          /\ Rid.height = Some(ScaledCm(l.height))
          /\ Rid.speed = Some(l.speed * 25)
          /\ Rid.direction = Some(l.direction)
          /\ Rid.vertical_speed = Some(l.vspeed * 50)
          /\ Rid.status = Some("Airborne")

\* the names of the id types 0..4
IdTypeNames == <<"None", "Serial Number", "CAA Registration ID", "UTM UUID",
                 "Specific Session ID">>

IsBasicOnly == Len(msgs) = 1 /\ msgs[1].kind = "basic" /\ msgs[1].id_type \in 0..4

PrintableOf(id) == SelectSeq(id, IsPrintable)
TrimmedLen(id) == Len(RStripNul(Utf8Ignore(id)))

\* C3 (as amended): for an input that is one Basic-ID message (id type 0..4,
\* 20 id bytes, with or without 2 trailing zero bytes) the parsed record has
\* no position, its uas_id_type is the name of the id type, and its uas_id
\* is the id's printable ASCII characters when there are at least
\* max(6, floor(L/2)) of them (L the length of the decoded id without its
\* trailing NULs), and the uppercase hex of the 20 id bytes otherwise.
BasicIdDecoded ==
    (op = "parse" /\ IsBasicOnly)
    => LET m == msgs[1]
           p == PrintableOf(m.id)
       IN /\ Rid.latitude = None /\ Rid.longitude = None
          /\ Rid.uas_id_type = Some(IdTypeNames[m.id_type + 1])
          /\ Rid.uas_id = Some(IF Len(p) >= 6 /\ Len(p) >= TrimmedLen(m.id) \div 2
                               THEN p ELSE HexUpper(m.id))

\* C3 (as claimed): ... its uas_id is the id's printable characters, or the
\* uppercase hex of the id bytes when fewer than half of the bytes are
\* printable. Stated where both readings of "the bytes" agree: fewer than
\* half of the trimmed id gives hex, half or more of all 20 bytes gives the
\* printable characters.
BasicIdDecodedHalfRule ==
    (op = "parse" /\ IsBasicOnly)
    => LET m == msgs[1]
           p == PrintableOf(m.id)
       IN /\ Rid.latitude = None /\ Rid.longitude = None
          /\ Rid.uas_id_type = Some(IdTypeNames[m.id_type + 1])
          /\ 2 * Len(p) < TrimmedLen(m.id) => Rid.uas_id = Some(HexUpper(m.id))
          /\ 2 * Len(p) >= Len(m.id) => Rid.uas_id = Some(p)

\* Scenario A is decoded to DJI-TEST-001 / Serial Number
BasicIdWitness ==
    /\ op = "parse" /\ msgs = <<Basic(1, IdDjiTest, <<>>)>>
    /\ Rid.uas_id = Some(<<68, 74, 73, 45, 84, 69, 83, 84, 45, 48, 48, 49>>)
    /\ Rid.uas_id_type = Some("Serial Number")
    /\ Rid.latitude = None

IsLocationsOnly ==
    /\ msgs # <<>>
    /\ \A i \in 1..Len(msgs) : msgs[i].kind = "loc" /\ msgs[i].tail = 7

\* C4: for every decoded Location/Vector message a field of the record is
\* absent exactly when the message's raw encoding is the sentinel:
\* altitude_msl iff raw altitude -1000, direction iff raw 0xFF, speed iff raw
\* 0xFF, vertical speed iff raw 0x7F.
SentinelsAbsent ==
    (op \in {"parse", "decode"} /\ IsLocationsOnly)
    => LET l == msgs[Len(msgs)]
       IN /\ (Rid.altitude_msl = None) <=> (l.alt = -1000)
          /\ (Rid.direction = None) <=> (l.direction = 255)
          /\ (Rid.speed = None) <=> (l.speed = 255)
          /\ (Rid.vertical_speed = None) <=> (l.vspeed = 127)

Occurs(data, pat) ==
    \E i \in 1..(Len(data) - Len(pat) + 1) : SubSeq(data, i, i + Len(pat) - 1) = pat

HasPatternOf(data, t) ==
    \E k \in 1..Len(AUTHENTIC_PATTERNS[t].patterns) :
        Occurs(data, AUTHENTIC_PATTERNS[t].patterns[k])

\* the "Pattern Detection (...)" name of the first pattern family present
ExpectedPatternName(data) ==
    IF HasPatternOf(data, 1) THEN "Pattern Detection (dji_remote_id)"
    ELSE IF HasPatternOf(data, 2) THEN "Pattern Detection (astm_f3411)"
    ELSE "Pattern Detection (opendroneid)"

\* C5: pattern fallback. When the structured pass yields neither a valid id
\* nor a latitude and the input contains a known authentic pattern, the
\* record returned by decode_from_raw_bytes has uas_id_type "Pattern
\* Detection (<pattern type>)" and a non-empty uas_id; for Scenario C it is
\* "Pattern Detection (dji_remote_id)".
PatternFallback ==
    op = "decode"
    => LET structured == ParseRemoteIdMessages(raw_data, RemoteIDData)
       IN /\ (/\ ~IsValidId(structured.uas_id)
              /\ structured.latitude = None
              /\ \E t \in 1..Len(AUTHENTIC_PATTERNS) : HasPatternOf(raw_data, t))
             => /\ Rid.uas_id_type = Some(ExpectedPatternName(raw_data))
                /\ Truthy(Rid.uas_id)
          /\ msgs = ScenarioC
             => /\ ~IsValidId(structured.uas_id)
                /\ Rid.uas_id_type = Some("Pattern Detection (dji_remote_id)")
                /\ Rid.uas_id = Some(DjiRidText)

PatternFallbackWitness ==
    /\ op = "decode" /\ msgs = ScenarioC
    /\ Rid.uas_id_type = Some("Pattern Detection (dji_remote_id)")

IsBeaconLayout == msgs # <<>> /\ msgs[1] = BeaconFixed

IsOdidElement(m) == m.kind = "ie" /\ m.id = 221 /\ Len(m.oui) >= 4 /\ SubSeq(m.oui, 1, 3) = ODID_OUI

\* the record filled from the OpenDroneID elements of a layout alone
RECURSIVE FromOdidElements(_, _)
FromOdidElements(ms, rec) ==
    IF ms = <<>> THEN rec
    ELSE FromOdidElements(Tail(ms),
             IF IsOdidElement(Head(ms))
             THEN ParseRemoteIdMessages(Encode(Head(ms).payload), rec) ELSE rec)

\* C6: extract_remote_id fills the record only from Vendor-Specific elements
\* (0xDD) whose OUI is FA-0B-BC: the result is what those elements alone
\* give, and a frame without such an element yields no record.
OnlyOdidVendorElements ==
    (op = "extract" /\ IsBeaconLayout)
    => LET rec == FromOdidElements(Tail(msgs), RemoteIDData)
       IN /\ remote_id # None => remote_id = Some(rec)
          /\ remote_id = None <=> (rec.uas_id = None /\ rec.latitude = None)
          /\ (\A i \in 2..Len(msgs) : ~IsOdidElement(msgs[i])) => remote_id = None

\* Scenario D: the only vendor element carries OUI 00-50-F2
UnknownOuiWitness ==
    /\ op = "extract"
    /\ msgs = <<BeaconFixed, IE(221, MS_OUI \o VendorType, <<TestBasic>>)>>
    /\ remote_id = None

---------------------------------------------------------------------------
(* The acceptance filters and tolerance scans of the two transports        *)

\* (rid.uas_id_type or "").lower()
LowerTypeName(uas_id_type) ==
    IF uas_id_type = None THEN ""
    ELSE CASE Val(uas_id_type) = "None" -> "none"
           [] Val(uas_id_type) = "Serial Number" -> "serial number"
           [] Val(uas_id_type) = "CAA Registration ID" -> "caa registration id"
           [] Val(uas_id_type) = "UTM UUID" -> "utm uuid"
           [] Val(uas_id_type) = "Specific Session ID" -> "specific session id"
           [] Val(uas_id_type) = "Unknown" -> "unknown"
           [] Val(uas_id_type) = "Pattern Detection (dji_remote_id)" ->
                  "pattern detection (dji_remote_id)"
           [] Val(uas_id_type) = "Pattern Detection (astm_f3411)" ->
                  "pattern detection (astm_f3411)"
           [] Val(uas_id_type) = "Pattern Detection (opendroneid)" ->
                  "pattern detection (opendroneid)"

\* allowed_types of the scans
AllowedTypes == {"serial number", "caa registration id", "utm uuid", "specific session id"}

\* "pattern detection" in uas_id_type
IsPatternDetection(lowered) ==
    lowered \in {"pattern detection (dji_remote_id)", "pattern detection (astm_f3411)",
                 "pattern detection (opendroneid)"}

\* is_plausible_ascii, local to both scans
IsPlausibleAscii(str) ==
    /\ str # <<>>
    /\ Len(str) >= 6 /\ Len(str) <= 32
    /\ \A i \in 1..Len(str) : 32 <= str[i] /\ str[i] <= 126

\* rid.uas_id or ""
IdOrEmpty(rec) == IF Truthy(rec.uas_id) THEN Val(rec.uas_id) ELSE <<>>

HasLocation(rec) == rec.latitude # None /\ rec.longitude # None

\* id_ok or has_location, as the suffix loops and the BLE first try compute it
AcceptedStrict(rec) ==
    \/ LowerTypeName(rec.uas_id_type) \in AllowedTypes /\ IsPlausibleAscii(IdOrEmpty(rec))
    \/ HasLocation(rec)

\* id_ok or has_location, as the first try of _try_decode_from_bytes computes it
AcceptedOrPattern(rec) ==
    \/ LowerTypeName(rec.uas_id_type) \in (AllowedTypes \cup {"pattern detection"})
          /\ IsPlausibleAscii(IdOrEmpty(rec))
    \/ IsPatternDetection(LowerTypeName(rec.uas_id_type))
    \/ HasLocation(rec)

WIFI_SCAN_WINDOW == 128
BLE_SCAN_WINDOW == 64

RECURSIVE ScanSuffixes(_, _, _, _)

\* one turn of the suffix loop, rid decoded from data[i:]
ScanTurn(rid, data, i, stop, tried) ==
    IF AcceptedStrict(rid) THEN [rid |-> Some(rid), tried |-> Append(tried, i)]
    ELSE ScanSuffixes(data, i + 1, stop, Append(tried, i))

\* for i in range(i, stop): decode data[i:], return the first accepted record
ScanSuffixes(data, i, stop, tried) ==
    IF i >= stop THEN [rid |-> None, tried |-> tried]
    ELSE ScanTurn(DecodeFromRawBytes(SliceFrom(data, i)), data, i, stop, tried)

\* the first try: the record decoded from all of data when accepted, else the scan
FirstTryOrScan(rid, accepted, data, window) ==
    IF accepted THEN [rid |-> Some(rid), tried |-> <<>>]
    ELSE ScanSuffixes(data, 0, Max(0, Len(data) - window), <<>>)

\* the first try of _try_decode_from_bytes
WifiFirstTry(rid, data) == FirstTryOrScan(rid, AcceptedOrPattern(rid), data, WIFI_SCAN_WINDOW)

\* the first try of _try_decode
BleFirstTry(rid, data) == FirstTryOrScan(rid, AcceptedStrict(rid), data, BLE_SCAN_WINDOW)

\* GNURadioWiFiRemoteIDSystem._try_decode_from_bytes: the record returned and
\* the suffix offsets decoded again
TryDecodeFromBytes(data) == WifiFirstTry(DecodeFromRawBytes(data), data)

\* BLERemoteIDScanner._try_decode
TryDecode(data) == BleFirstTry(DecodeFromRawBytes(data), data)

---------------------------------------------------------------------------
(* The Wi-Fi frame handler and the BLE advertisement handler               *)

Bump(counts, key) == [counts EXCEPT ![key] = @ + 1]

\* the counter a frame of this type and subtype goes to
CounterOf(ftype, fsub) ==
    IF ftype = 0
    THEN IF fsub = 8 THEN "mgmt_beacon"
         ELSE IF fsub = 13 THEN "mgmt_action"
         ELSE IF fsub = 5 THEN "mgmt_probe_resp"
         ELSE "other"
    ELSE IF ftype = 1 THEN "ctrl"
    ELSE IF ftype = 2 THEN "data"
    ELSE "other"

\* the two counting passes of _process_wifi_pdu: the metadata, then the header
CountFrame(counts, md, packet) ==
    LET byMeta == IF md # None THEN Bump(counts, CounterOf(Val(md)[1], Val(md)[2]))
                  ELSE counts
    IN IF Len(packet) >= 24
       THEN LET fc0 == At(packet, 0)
            IN Bump(byMeta, CounterOf((fc0 \div 4) % 4, (fc0 \div 16) % 16))
       ELSE byMeta

\* _display_remote_id raises on formatting an absent altitude or height
DisplayRaises(rec) ==
    /\ TruthyNum(rec.latitude) /\ TruthyNum(rec.longitude)
    /\ (rec.altitude_msl = None \/ rec.height = None)

\* a record handed on with its method, or nothing
Emitted(emit, rid, method) == IF emit THEN <<[rid |-> Val(rid), method |-> method]>> ELSE <<>>

\* the beacon branch: the record is handed on when its uas_id is truthy
BeaconOutcome(rid) ==
    [handled |-> Emitted(rid # None /\ Truthy(Val(rid).uas_id), rid, "wifi_beacon"),
     tried |-> <<>>, raw |-> FALSE]

\* the Action / NAN branch: what _try_decode_from_bytes returned
ActionOutcome(t) ==
    [handled |-> Emitted(t.rid # None
                            /\ (Truthy(Val(t.rid).uas_id) \/ HasLocation(Val(t.rid))),
                         t.rid, "wifi_action_nan"),
     tried |-> t.tried, raw |-> TRUE]

\* the beacon-body branch, then the Action / NAN branch
BodyOutcome(body_rid, packet) ==
    IF body_rid # None /\ (Truthy(Val(body_rid).uas_id) \/ HasLocation(Val(body_rid)))
    THEN [handled |-> Emitted(TRUE, body_rid, "wifi_beacon_body"), tried |-> <<>>,
          raw |-> FALSE]
    ELSE ActionOutcome(TryDecodeFromBytes(packet))

\* extract_remote_id on a parsed beacon body, None without one
BodyRecord(beacon_body) ==
    IF beacon_body # None THEN ExtractRemoteId(Val(beacon_body)) ELSE None

\* the records _process_wifi_pdu hands to _handle_remote_id, with their method,
\* the offsets its tolerance scan decoded again, and whether the frame reached
\* _try_decode_from_bytes (raw)
WifiOutcome(packet) ==
    IF ParseBeaconFrame(packet) # None
    THEN BeaconOutcome(ExtractRemoteId(Val(ParseBeaconFrame(packet))))
    ELSE BodyOutcome(BodyRecord(ParseBeaconBody(packet)), packet)

\* the candidates of _handle_adv: service data first, payloads of 5 bytes or more
Candidates(a) ==
    SelectSeq(a.service_data \o a.manufacturer_data, LAMBDA v : Len(v) >= 5)

\* one payload's result before those of the payloads after it
PayloadOutcome(t, n, rest) ==
    [handled |-> Emitted(t.rid # None, t.rid, "ble_advertising") \o rest.handled,
     tried |-> <<[n |-> n, offsets |-> t.tried, window |-> BLE_SCAN_WINDOW]>> \o rest.tried]

\* for payload in candidates: _try_decode, then _publish
RECURSIVE BleOutcome(_)
BleOutcome(payloads) ==
    IF payloads = <<>> THEN [handled |-> <<>>, tried |-> <<>>]
    ELSE PayloadOutcome(TryDecode(Head(payloads)), Len(Head(payloads)),
                        BleOutcome(Tail(payloads)))

---------------------------------------------------------------------------
(* Frames and advertisements offered to the handlers                       *)

\* a 36-byte beacon header: frame control 0x80, then addresses and fixed fields
BeaconHeader == Bytes(<<128>> \o Repeat(0, 35))

WifiIELibrary ==
    {IE(221, ODID_OUI \o VendorType, <<TestBasic>>),
     IE(221, MS_OUI \o VendorType, <<TestBasic>>),
     IE(221, ODID_OUI \o VendorType, <<Basic(0, IdSix, <<>>)>>),
     IE(221, ODID_OUI \o VendorType, <<Basic(1, IdZeros, <<>>)>>),
     IE(221, ODID_OUI \o VendorType, <<Basic(2, IdBinary, <<>>)>>),
     IE(221, ODID_OUI \o VendorType, <<LibLoc>>),
     IE(221, ODID_OUI \o VendorType,
        <<Loc(0, 255, 255, 127, 123585000, -15352000, -1000, -1000, 7)>>),
     IE(0, <<68, 74, 73>>, <<>>)}

MaxFrameIEs == 1

BeaconFrames == {Encode(<<BeaconHeader>> \o q) : q \in SeqsUpTo(WifiIELibrary, MaxFrameIEs)}

\* frames shorter than a beacon header: a bare message, a pattern, noise
ShortFrames ==
    {Encode(<<Basic(t, id, <<>>)>>) : t \in {0, 1, 5}, id \in Ids}
    \cup {Encode(<<Loc(1, 87, 49, 5, la, lo, al, 90, 7)>>) :
             la \in LatValues, lo \in LonValues, al \in {-1000, 241}}
    \cup {<<77, 65, 86, 73, 67>>, Repeat(255, 11), <<208>> \o Repeat(0, 12) \o <<221, 4>>
             \o ODID_OUI \o VendorType \o <<4, 1, 2, 3>>, <<>>}

\* an Action frame (frame control 0xD0) with a 24-byte header and a body that
\* is a bare Basic-ID message after 12 bytes
ActionFrames == {Encode(<<Bytes(<<208>> \o Repeat(0, 35)), TestBasic>>)}

WifiFrames == BeaconFrames \cup ShortFrames \cup ActionFrames

Metas == {None, Some(<<0, 8>>), Some(<<2, 0>>)}

\* advertisement payloads: bare messages, noise longer than the scan window
ServicePayloads ==
    {Encode(<<TestBasic>>), Encode(<<Basic(1, IdZeros, <<>>)>>),
     Encode(<<Basic(1, IdDashes, <<>>)>>), Encode(<<Basic(0, IdSix, <<>>)>>),
     Encode(<<Basic(2, IdBinary, <<>>)>>), Encode(<<LibLoc>>),
     Encode(<<Loc(1, 87, 49, 5, 123585000, 0, 241, 90, 7)>>),
     <<68, 74, 73, 45, 82, 73, 68, 45>> \o Repeat(65, 12) \o <<0>>,
     Repeat(255, BLE_SCAN_WINDOW + 1),
     Repeat(255, 3) \o Encode(<<TestBasic>>) \o Repeat(255, BLE_SCAN_WINDOW)}

ManufacturerPayloads == {<<1, 2, 3, 4>>, Encode(<<LibLoc>>), Encode(<<TestBasic>>)}

Advertisements ==
    {[service_data |-> sd, manufacturer_data |-> md] :
        sd \in {<<>>} \cup {<<v>> : v \in ServicePayloads},
        md \in {<<>>} \cup {<<v>> : v \in ManufacturerPayloads}}

MaxFrames == 2

---------------------------------------------------------------------------
(* The orchestrator: frames and advertisements arrive and are handled      *)

Init ==
    /\ DecoderIdle
    /\ RxIdle
    /\ mqtt_connected \in BOOLEAN
    /\ PlanIdle
    /\ AuxIdle

NoAdvertisement == [service_data |-> <<>>, manufacturer_data |-> <<>>]

\* the flow graph stores a decoded frame for the packet thread
FrameArrives ==
    /\ pc = "idle" /\ frames < MaxFrames
    /\ packet_bytes' \in WifiFrames
    /\ pc' = "wifi"
    /\ meta' = None /\ ble_adv' = NoAdvertisement
    /\ handled' = <<>> /\ retried' = <<>> /\ published' = <<>>
    /\ UNCHANGED <<detection_count, frame_counts, frames, mqtt_connected, decVars, planVars, auxVars>>

\* _handle_remote_id for the records of one frame: count, display, publish
HandleRemoteId(out) ==
    /\ handled' = out.handled
    /\ retried' = <<[n |-> Len(packet_bytes), offsets |-> out.tried,
                     window |-> WIFI_SCAN_WINDOW, raw |-> out.raw]>>
    /\ detection_count' = detection_count + Len(out.handled)
    /\ published' =
          IF out.handled # <<>> /\ ~DisplayRaises(out.handled[1].rid) /\ mqtt_connected
          THEN <<[remote_id |-> out.handled[1].rid, method |-> out.handled[1].method,
                  detection_number |-> detection_count + 1]>>
          ELSE <<>>

\* GNURadioWiFiRemoteIDSystem._process_wifi_pdu(meta, packet_bytes), with
\* _handle_remote_id
ProcessWifiPdu ==
    /\ pc = "wifi"
    /\ HandleRemoteId(WifiOutcome(packet_bytes))
    /\ \E md \in Metas :
          /\ meta' = md
          /\ frame_counts' = CountFrame(frame_counts, md, packet_bytes)
    /\ frames' = frames + 1
    /\ pc' = "idle"
    /\ UNCHANGED <<packet_bytes, ble_adv, mqtt_connected, decVars, planVars, auxVars>>

\* the BLE scan reports an advertisement
AdvArrives ==
    /\ pc = "idle" /\ frames < MaxFrames
    /\ ble_adv' \in Advertisements
    /\ pc' = "ble"
    /\ meta' = None /\ packet_bytes' = <<>>
    /\ handled' = <<>> /\ retried' = <<>> /\ published' = <<>>
    /\ UNCHANGED <<detection_count, frame_counts, frames, mqtt_connected, decVars, planVars, auxVars>>

\* _publish for the records of one advertisement
Publish(out) ==
    /\ handled' = out.handled
    /\ retried' = out.tried
    /\ published' =
          IF mqtt_connected
          THEN [i \in 1..Len(out.handled) |->
                  [remote_id |-> out.handled[i].rid, method |-> out.handled[i].method]]
          ELSE <<>>

\* BLERemoteIDScanner._handle_adv(addr, adv), with _publish
HandleAdv ==
    /\ pc = "ble"
    /\ Publish(BleOutcome(Candidates(ble_adv)))
    /\ frames' = frames + 1
    /\ pc' = "idle"
    /\ UNCHANGED <<packet_bytes, meta, ble_adv, detection_count, frame_counts,
                   mqtt_connected, decVars, planVars, auxVars>>

\* the broker connection comes and goes
MqttFlips ==
    /\ pc = "idle"
    /\ mqtt_connected' = ~mqtt_connected
    /\ UNCHANGED <<pc, packet_bytes, meta, ble_adv, handled, retried, published,
                   detection_count, frame_counts, frames, decVars, planVars, auxVars>>

Next == FrameArrives \/ ProcessWifiPdu \/ AdvArrives \/ HandleAdv \/ MqttFlips

Spec == Init /\ [][Next]_vars

---------------------------------------------------------------------------
(* Properties of the emitted records and of the tolerance scans            *)

\* a run of zeros, of spaces or of dashes
IsRunOfFiller(str) ==
    /\ str # <<>>
    /\ \E c \in {48, 32, 45} : \A i \in 1..Len(str) : str[i] = c

\* C1: every record handed to _handle_remote_id or to _publish satisfies
\* (a) a recognized uas_id_type with an ASCII-printable uas_id of length 6 to
\* 32, or (b) latitude and longitude both present and non-zero, or (c) it is
\* a pattern detection.
EmittedRecordsFiltered ==
    \A i \in 1..Len(handled) :
        LET rec == handled[i].rid
        IN \/ /\ LowerTypeName(rec.uas_id_type) \in AllowedTypes
              /\ IsPlausibleAscii(IdOrEmpty(rec))
           \/ TruthyNum(rec.latitude) /\ TruthyNum(rec.longitude)
           \/ IsPatternDetection(LowerTypeName(rec.uas_id_type))

\* C7: no record is accepted on its identifier alone (no position, not a
\* pattern detection) when its uas_id is a run of zeros, spaces or dashes.
NoFillerIdAccepted ==
    \A i \in 1..Len(handled) :
        LET rec == handled[i].rid
        IN (~HasLocation(rec) /\ ~IsPatternDetection(LowerTypeName(rec.uas_id_type)))
           => ~IsRunOfFiller(IdOrEmpty(rec))

\* C8: a tolerance scan decodes again only suffixes that start within the
\* last window bytes of its input (128 for Wi-Fi, 64 for BLE), so at most
\* window of them.
ScanWithinLastWindow ==
    \A k \in 1..Len(retried) :
        LET r == retried[k]
        IN /\ Len(r.offsets) <= r.window
           /\ \A j \in 1..Len(r.offsets) : r.offsets[j] >= r.n - r.window

\* C16: a detection is never blocked by the publisher: a step of
\* _process_wifi_pdu that hands a record to _handle_remote_id while the
\* publisher is disconnected still increments detection_count and displays
\* the record in full, and the handler returns so that later frames are
\* processed.
DetectionNotBlocked ==
    [][(pc = "wifi" /\ ~mqtt_connected /\ handled' # <<>>)
          => /\ detection_count' = detection_count + 1
             /\ ~DisplayRaises(handled'[1].rid)
             /\ pc' = "idle"]_vars

\* C17: every record given to publish_detection, from the Wi-Fi path or from
\* the BLE path, carries an integer ID assigned at emission, greater than the
\* IDs of the records emitted before it.
EveryDetectionNumbered ==
    \A i \in 1..Len(published) :
        /\ "detection_number" \in DOMAIN published[i]
        /\ published[i].detection_number \in 1..detection_count
        /\ \A j \in 1..(i - 1) :
              published[j].detection_number < published[i].detection_number

\* C24: every record a step of _process_wifi_pdu hands to _handle_remote_id
\* while the publisher is connected is given to publish_detection, also a
\* record with a position whose altitude or height is absent.
HandledRecordPublished ==
    [][(pc = "wifi" /\ mqtt_connected /\ handled' # <<>>)
          => /\ Len(published') = Len(handled')
             /\ \A i \in 1..Len(handled') : published'[i].remote_id = handled'[i].rid]_vars

\* the sum of the six frame counters
CountersSum(counts) ==
    counts.mgmt_beacon + counts.mgmt_action + counts.mgmt_probe_resp
       + counts.ctrl + counts.data + counts.other

\* C29: each frame passed to _process_wifi_pdu increments exactly one of the
\* frame counters by exactly one, so that their sum is the number of frames
\* processed.
OneCounterPerFrame ==
    [][pc = "wifi"
          => /\ CountersSum(frame_counts') = CountersSum(frame_counts) + 1
             /\ \A key \in DOMAIN frame_counts :
                   frame_counts'[key] \in {frame_counts[key], frame_counts[key] + 1}]_vars

\* C21: every Wi-Fi frame for which the beacon paths hand no record to
\* _handle_remote_id, whatever its length, is offered to
\* _try_decode_from_bytes before it is discarded.
UnrecognizedFrameOfferedToRawDecoder ==
    \A k \in 1..Len(retried) :
        (pc = "idle" /\ packet_bytes # <<>> /\ handled = <<>>) => retried[k].raw

---------------------------------------------------------------------------
(* main() builds the channel plan from its arguments                       *)

InitPlan ==
    /\ DecoderIdle
    /\ RxIdle
    /\ mqtt_connected = FALSE
    /\ plan_parts \in PlanInputs
    /\ scan_channels = PlanText(plan_parts)
    /\ channels_list = <<>>
    /\ hop_interval \in HopIntervals
    /\ plan_pc = "args"
    /\ exit_code = None
    /\ AuxIdle

\* main(): channels_list from args.scan_channels, then the hop interval
BuildChannelPlan ==
    /\ plan_pc = "args"
    /\ channels_list' = ChannelsList(scan_channels)
    /\ hop_interval' = HopInterval(scan_channels, hop_interval)
    /\ plan_pc' = "built"
    /\ UNCHANGED <<plan_parts, scan_channels, exit_code, decVars, rxVars, auxVars>>

\* main(): GNURadioWiFiRemoteIDSystem(channels=channels_list, ...) and
\* system.start().  _check_dependencies ends the process with sys.exit(1)
\* (GNU Radio missing) or raises RuntimeError (UHD or gr-ieee802-11 missing),
\* which main() turns into sys.exit(1); otherwise start() runs the system on
\* channels_list.
StartSystem ==
    /\ plan_pc = "built"
    /\ \E dependencies_ok \in BOOLEAN :
          IF dependencies_ok
          THEN plan_pc' = "started" /\ exit_code' = exit_code
          ELSE plan_pc' = "exited" /\ exit_code' = Some(1)
    /\ UNCHANGED <<plan_parts, scan_channels, channels_list, hop_interval, decVars, rxVars, auxVars>>

NextPlan == BuildChannelPlan \/ StartSystem

SpecPlan == InitPlan /\ [][NextPlan]_vars

\* the frequencies a part of an expression denotes
Denotes(part) ==
    CASE part.kind = "ch" -> {2412 + 5 * (part.ch - 1)}
      [] part.kind = "range" /\ part.band = 2 -> {2412 + 5 * (ch - 1) : ch \in part.a..part.b}
      [] part.kind = "range" /\ part.band = 5 -> {5000 + 5 * ch : ch \in part.a..part.b}
      [] part.kind = "list" /\ part.band = 2 ->
            {2412 + 5 * (part.chs[k] - 1) : k \in 1..Len(part.chs)}
      [] part.kind = "list" /\ part.band = 5 ->
            {5000 + 5 * part.chs[k] : k \in 1..Len(part.chs)}
      [] part.kind = "common" -> {5000 + 5 * ch : ch \in {36, 40, 44, 48, 149, 153, 157, 161}}
      [] part.kind = "all" ->
            {2412 + 5 * (ch - 1) : ch \in 1..13}
               \cup {5000 + 5 * ch : ch \in {36, 40, 44, 48, 149, 153, 157, 161}}
      [] part.kind = "text" -> {}

\* a channel number, a 2.4 GHz range or '/' list within 1..13, a 5 GHz '/'
\* list, or 5g:common
IsPlainPart(part) ==
    \/ part.kind = "ch" /\ part.ch >= 1
    \/ part.kind = "range" /\ part.band = 2 /\ 1 <= part.a /\ part.a <= part.b /\ part.b <= 13
    \/ part.kind = "list" /\ part.sep = "/"
          /\ (part.band = 2 => \A k \in 1..Len(part.chs) : part.chs[k] \in 1..13)
    \/ part.kind = "common"

IsPlainPlan(parts) ==
    \/ parts = <<All>>
    \/ parts # <<>> /\ \A k \in 1..Len(parts) : IsPlainPart(parts[k])

DenotedPlan(parts) == SortedOf(UNION {Denotes(parts[k]) : k \in 1..Len(parts)})

\* C9: the plan built from an expression is the set of frequencies its
\* parts denote, 2412 + 5*(ch-1) MHz for a 2.4 GHz channel and 5000 + 5*ch
\* MHz for a 5 GHz channel, in increasing order: 'all' gives the channels
\* 1..13 and 36, 40, 44, 48, 149, 153, 157, 161; '1,6,11' gives 2412, 2437,
\* 2462; '2g:1-3,5g:36/40' gives exactly 2412, 2417, 2422, 5180, 5200.
ChannelPlanDenoted ==
    plan_pc = "built"
    => /\ IsPlainPlan(plan_parts) => channels_list = DenotedPlan(plan_parts)
       /\ plan_parts = <<All>>
          => channels_list = <<2412, 2417, 2422, 2427, 2432, 2437, 2442, 2447, 2452, 2457,
                               2462, 2467, 2472, 5180, 5200, 5220, 5240, 5745, 5765, 5785,
                               5805>>
       /\ scan_channels = <<"1", ",", "6", ",", "1", "1">>
          => channels_list = <<2412, 2437, 2462>>
       /\ scan_channels = <<"2", "g", ":", "1", "-", "3", ",", "5", "g", ":", "3", "6", "/",
                            "4", "0">>
          => channels_list = <<2412, 2417, 2422, 5180, 5200>>

\* the plan of '2g:1-3,5g:36/40' has been built
ChannelPlanWitness ==
    /\ plan_pc = "built"
    /\ plan_parts = <<Range(2, 1, 3), List(5, <<36, 40>>, "/")>>
    /\ scan_channels = <<"2", "g", ":", "1", "-", "3", ",", "5", "g", ":", "3", "6", "/",
                         "4", "0">>
    /\ channels_list = <<2412, 2417, 2422, 5180, 5200>>

\* C10: a 2g: or 5g: prefix scopes the channels of its sub-expression: for
\* the documented form '2g:1-13,5g:36,40,44,48' the plan is the 2.4 GHz
\* channels 1..13 plus the 5 GHz channels 36, 40, 44, 48 (5180, 5200, 5220,
\* 5240 MHz), and nothing else.
PrefixScopesSubExpression ==
    (plan_pc = "built" /\ plan_parts = DocumentedPlan)
    => /\ channels_list = DenotedPlan(DocumentedPlan)
       /\ Elements(channels_list) =
             {2412 + 5 * (ch - 1) : ch \in 1..13} \cup {5180, 5200, 5220, 5240}

\* tokens that are neither a channel number nor a band-prefixed range or list
UnknownTokens ==
    {Text(<<"x">>), Text(<<"2", "g", ":", "1", "-">>), Text(<<"5", "g", ":", "3", "6", "-", "x">>)}

HasUnknownToken(parts) == \E k \in 1..Len(parts) : parts[k] \in UnknownTokens

\* C11: an unknown or malformed token in the scan-channels expression is
\* fatal at startup: the process exits with a non-zero code and the system
\* is never started on a substituted channel plan.
UnknownTokenIsFatal ==
    HasUnknownToken(plan_parts)
    => /\ plan_pc # "started"
       /\ plan_pc = "exited" => (exit_code # None /\ Val(exit_code) # 0)
       /\ plan_pc = "built" => channels_list # FALLBACK_PLAN

---------------------------------------------------------------------------
(* Threat assessment of the fusion module (src/src/data_fusion.py).        *)
(* Latitudes and longitudes are in 1e-4 degree, distances, heights in m,   *)
(* speeds in m/s.                                                          *)

\* DataFusion.RESTRICTED_ZONES
RESTRICTED_ZONES ==
    <<[name |-> "Zone militaire exemple", center_lat |-> 123714, center_lon |-> -15197,
       radius_km |-> 5],
      [name |-> "Aeroport Ouagadougou", center_lat |-> 123532, center_lon |-> -15124,
       radius_km |-> 10]>>

\* the defaults of DataFusion.threat_thresholds
ALTITUDE_AGL_LIMIT_M == 120
SPEED_LIMIT_MPS == 20
OPERATOR_DISTANCE_LIMIT_M == 5000

\* the positions handed to the fusion module: the centre of the first zone,
\* a point 9.9 km east-ish of the airport, and a point outside both zones
FusionPoints ==
    {[latitude |-> 123714, longitude |-> -15197],
     [latitude |-> 123532, longitude |-> -14210],
     [latitude |-> 126000, longitude |-> -15000]}

\* _calculate_distance (haversine, R = 6371000 m) at the points above,
\* rounded to the metre
HAVERSINE_M ==
    {<<123714, -15197, 123714, -15197, 0>>, <<123714, -15197, 123532, -15124, 2174>>,
     <<123532, -14210, 123714, -15197, 10910>>, <<123532, -14210, 123532, -15124, 9928>>,
     <<126000, -15000, 123714, -15197, 25509>>, <<126000, -15000, 123532, -15124, 27476>>}

calculate_distance(lat1, lon1, lat2, lon2) ==
    (CHOOSE e \in HAVERSINE_M : e[1] = lat1 /\ e[2] = lon1 /\ e[3] = lat2 /\ e[4] = lon2)[5]

\* _check_restricted_zone(position)
check_restricted_zone(position) ==
    IF position = None \/ Val(position).latitude = 0 \/ Val(position).longitude = 0
    THEN FALSE
    ELSE \E z \in 1..Len(RESTRICTED_ZONES) :
            calculate_distance(Val(position).latitude, Val(position).longitude,
                               RESTRICTED_ZONES[z].center_lat, RESTRICTED_ZONES[z].center_lon)
               <= RESTRICTED_ZONES[z].radius_km * 1000

\* dict.get(key, 0) on an optional entry
GetOr0(o) == IF o = None THEN 0 ELSE Val(o)

\* the "score += ...; reasons.append(...)" statements of _assess_threat in
\* the order of the source, each with the condition it runs under.  rid is
\* None for the empty dict ("not remote_id").
ThreatSteps(rid, cls) ==
    <<[applies |-> rid = None, score |-> 20, reason |-> "Aucune donnee Remote ID"],
      [applies |-> rid # None /\ Truthy(Val(rid).uas_id), score |-> -10,
       reason |-> "Remote ID disponible"],
      [applies |-> rid # None /\ Val(rid).position # None
                      /\ check_restricted_zone(Val(rid).position),
       score |-> 50, reason |-> "Drone dans zone restreinte"],
      [applies |-> rid # None /\ Val(rid).position # None
                      /\ Val(Val(rid).position).altitude_agl > ALTITUDE_AGL_LIMIT_M,
       score |-> 20, reason |-> "Altitude elevee"],
      [applies |-> rid # None /\ GetOr0(Val(rid).speed) > SPEED_LIMIT_MPS,
       score |-> 10, reason |-> "Vitesse elevee"],
      [applies |-> rid # None /\ GetOr0(Val(rid).distance_to_uas_m) > OPERATOR_DISTANCE_LIMIT_M,
       score |-> 15, reason |-> "Distance operateur > 5km"],
      [applies |-> ~cls.is_valid, score |-> 10, reason |-> "Classification incertaine"]>>

RECURSIVE SumScores(_)
SumScores(steps) == IF steps = <<>> THEN 0 ELSE Head(steps).score + SumScores(Tail(steps))

\* HIGH only above 50
threat_level_above(score) ==
    IF score > 50 THEN "HIGH" ELSE IF score >= 20 THEN "MEDIUM" ELSE "LOW"

threat_level(score) ==
    IF score >= 50 THEN "HIGH" ELSE IF score >= 20 THEN "MEDIUM" ELSE "LOW"

AssessApplied(applied) ==
    [level |-> threat_level(SumScores(applied)),
     score |-> SumScores(applied),
     reasons |-> IF applied = <<>> THEN <<"Aucune anomalie detectee">>
                 ELSE [k \in 1..Len(applied) |-> applied[k].reason]]

\* _assess_threat(remote_id, classification): (level, reasons), with the
\* local score it was decided from
assess_threat(rid, cls) ==
    AssessApplied(SelectSeq(ThreatSteps(rid, cls), LAMBDA st : st.applies))

\* fusion_result['remote_id'] as fuse_detection_data builds it: the empty
\* dict without Remote ID data; otherwise uas_id, a position when latitude
\* and longitude are set, a velocity when the speed is known, and an operator
\* with its distance to the aircraft when the operator position is set
AltitudesAgl == {0, 120, 121, 200}
Speeds == {None, Some(20), Some(25)}
OperatorDistances == {None, Some(5000), Some(6000)}
FusedPositions ==
    {Some([latitude |-> pt.latitude, longitude |-> pt.longitude, altitude_agl |-> a]) :
        pt \in FusionPoints, a \in AltitudesAgl}

FusedRemoteIds ==
    {None}
    \cup {Some([uas_id |-> u, position |-> p, speed |-> sp, distance_to_uas_m |-> d]) :
            u \in {None, Some(<<68, 74, 73>>)}, p \in FusedPositions, sp \in Speeds,
            d \in OperatorDistances}
    \cup {Some([uas_id |-> u, position |-> None, speed |-> sp, distance_to_uas_m |-> None]) :
            u \in {None, Some(<<68, 74, 73>>)}, sp \in Speeds}

InitThreat ==
    /\ DecoderIdle
    /\ RxIdle
    /\ mqtt_connected = FALSE
    /\ PlanIdle
    /\ fused_remote_id \in FusedRemoteIds
    /\ classification \in [is_valid : BOOLEAN]
    /\ threat_assessment = None
    /\ remote_id_data = None
    /\ fusion_error = None
    /\ PublisherIdle
    /\ RunIdle
    /\ AcqIdle
    /\ StopIdle

\* fuse_detection_data: threat_level, threat_reasons = self._assess_threat(...)
AssessThreat ==
    /\ threat_assessment = None
    /\ threat_assessment' = Some(assess_threat(fused_remote_id, classification))
    /\ UNCHANGED <<fused_remote_id, classification, remote_id_data, fusion_error,
                   outsideFusion>>

NextThreat == AssessThreat

SpecThreat == InitThreat /\ [][NextThreat]_vars

Bit(b, v) == IF b THEN v ELSE 0

\* the position of the assessed record lies within radius_km of a zone centre
InAnyZone ==
    /\ fused_remote_id # None
    /\ Val(fused_remote_id).position # None
    /\ \E z \in 1..Len(RESTRICTED_ZONES) :
          \E e \in HAVERSINE_M :
             /\ e[1] = Val(Val(fused_remote_id).position).latitude
             /\ e[2] = Val(Val(fused_remote_id).position).longitude
             /\ e[3] = RESTRICTED_ZONES[z].center_lat
             /\ e[4] = RESTRICTED_ZONES[z].center_lon
             /\ e[5] <= 1000 * RESTRICTED_ZONES[z].radius_km

TooHigh ==
    /\ fused_remote_id # None
    /\ Val(fused_remote_id).position # None
    /\ Val(Val(fused_remote_id).position).altitude_agl > 120

TooFast ==
    fused_remote_id # None /\ Val(fused_remote_id).speed # None
       /\ Val(Val(fused_remote_id).speed) > 20

OperatorFar ==
    fused_remote_id # None /\ Val(fused_remote_id).distance_to_uas_m # None
       /\ Val(Val(fused_remote_id).distance_to_uas_m) > 5000

HasUasId == fused_remote_id # None /\ Val(fused_remote_id).uas_id # None

\* the score and the number of contributions, the Remote ID bonus of -10
\* being given under the condition bonus
ScoreWith(bonus) ==
    Bit(InAnyZone, 50) + Bit(TooHigh, 20) + Bit(TooFast, 10) + Bit(OperatorFar, 15)
       + Bit(fused_remote_id = None, 20) + Bit(bonus, -10) + Bit(~classification.is_valid, 10)

CountWith(bonus) ==
    Bit(InAnyZone, 1) + Bit(TooHigh, 1) + Bit(TooFast, 1) + Bit(OperatorFar, 1)
       + Bit(fused_remote_id = None, 1) + Bit(bonus, 1) + Bit(~classification.is_valid, 1)

LevelOf(score) == IF score >= 50 THEN "HIGH" ELSE IF score >= 20 THEN "MEDIUM" ELSE "LOW"

\* a record with a uas_id inside a zone, 200 m above ground, at 25 m/s, its
\* operator 6000 m away, the classifier verdict valid
IsScenarioE ==
    /\ InAnyZone /\ HasUasId /\ classification.is_valid
    /\ Val(Val(fused_remote_id).position).altitude_agl = 200
    /\ Val(fused_remote_id).speed = Some(25)
    /\ Val(fused_remote_id).distance_to_uas_m = Some(6000)

---------------------------------------------------------------------------
(* MQTTPublisher.publish_detection (src/src/mqtt_publisher.py)             *)

\* the topics of MQTTPublisher.TOPICS
TOPICS ==
    [detection |-> "drone/detection", position |-> "drone/position",
     classification |-> "drone/classification", alert |-> "drone/alert",
     health |-> "system/health"]

\* detection_data.get('threat_assessment', {}).get('level'): None without an
\* assessment
ThreatLevels == {None, Some("LOW"), Some("MEDIUM"), Some("HIGH")}

\* the detections handed to publish_detection: the level of their threat
\* assessment and whether remote_id['position'] is set
Detections == [level : ThreatLevels, has_position : BOOLEAN]

Message(topic, n) == [topic |-> topic, detection |-> n]

\* _publish_position: nothing without a position
PositionMessages(det, n) ==
    IF det.has_position THEN <<Message(TOPICS.position, n)>> ELSE <<>>

\* an alert for every assessed detection, LOW included
AlertMessagesAnyLevel(det, n) ==
    IF det.level # None THEN <<Message(TOPICS.alert, n)>> ELSE <<>>

\* if threat_level in ['HIGH', 'MEDIUM']: self._publish_alert(detection_data)
AlertMessages(det, n) ==
    IF det.level \in {Some("HIGH"), Some("MEDIUM")} THEN <<Message(TOPICS.alert, n)>> ELSE <<>>

\* the messages publish_detection gives to client.publish for its n-th call,
\* rc_success telling whether the broker client accepted the detection
PublishedMessages(connected, rc_success, det, n) ==
    IF ~connected THEN <<>>
    ELSE IF rc_success
    THEN <<Message(TOPICS.detection, n)>> \o PositionMessages(det, n)
            \o <<Message(TOPICS.classification, n)>> \o AlertMessages(det, n)
    ELSE <<Message(TOPICS.detection, n)>>

MaxPublishes == 2

InitMqtt ==
    /\ DecoderIdle
    /\ RxIdle
    /\ mqtt_connected \in BOOLEAN
    /\ PlanIdle
    /\ FusionIdle
    /\ PublisherIdle
    /\ RunIdle
    /\ AcqIdle
    /\ StopIdle

\* publish_detection(detection_data); the return value is kept with the call
PublishDetection ==
    /\ Len(publish_calls) < MaxPublishes
    /\ \E det \in Detections, rc_success \in BOOLEAN :
          /\ publish_calls' =
                Append(publish_calls,
                       [detection |-> det, connected |-> mqtt_connected,
                        rc_success |-> rc_success,
                        returned |-> mqtt_connected /\ rc_success])
          /\ mqtt_log' = mqtt_log \o PublishedMessages(mqtt_connected, rc_success, det,
                                                       Len(publish_calls) + 1)
    /\ UNCHANGED <<outsideMqtt>>

NextMqtt == PublishDetection \/ MqttFlips

SpecMqtt == InitMqtt /\ [][NextMqtt]_vars

\* C13: every message on drone/alert belongs to a detection whose threat
\* level is MEDIUM or HIGH, whose call was made while connected, and which
\* was accepted on drone/detection earlier in the log; a LOW or unassessed
\* detection or a call made while disconnected leaves no alert.
AlertOnlyAfterDetection ==
    \A k \in 1..Len(mqtt_log) :
        mqtt_log[k].topic = "drone/alert"
        => LET call == publish_calls[mqtt_log[k].detection]
           IN /\ call.detection.level \in {Some("MEDIUM"), Some("HIGH")}
              /\ call.connected
              /\ call.rc_success
              /\ \E j \in 1..(k - 1) :
                    /\ mqtt_log[j].topic = "drone/detection"
                    /\ mqtt_log[j].detection = mqtt_log[k].detection

\* a LOW detection was published without an alert, then a HIGH one with its
\* alert
AlertWitness ==
    /\ Len(publish_calls) = 2
    /\ publish_calls[1].detection.level = Some("LOW") /\ publish_calls[1].returned
    /\ publish_calls[2].detection.level = Some("HIGH") /\ publish_calls[2].returned
    /\ \E k \in 1..Len(mqtt_log) : mqtt_log[k] = Message("drone/alert", 2)
    /\ \A k \in 1..Len(mqtt_log) : mqtt_log[k] # Message("drone/alert", 1)

---------------------------------------------------------------------------
(* The running Wi-Fi system: flow graph, packet thread and channel hopper  *)
(* (src/main_gnuradio_wifi.py)                                             *)

\* GNURadioWiFiRemoteIDSystem.__init__: self.channels
SystemChannels(channels_arg, with_5ghz) ==
    (IF channels_arg = None THEN <<2412, 2437, 2462>> ELSE Val(channels_arg))
       \o (IF with_5ghz THEN <<5180, 5200>> ELSE <<>>)

\* the default of --freq
DEFAULT_FREQ == 2437

\* the channels argument of the constructor: None, or a built channels_list
\* (the plans of '1,6,11', of '1,6', of '6', of '5g:36' and of '')
ChannelArgs ==
    {None, Some(<<2412, 2437, 2462>>), Some(<<2412, 2437>>), Some(<<2437>>), Some(<<5180>>),
     Some(<<>>)}

MaxHops == 4
MaxCaptured == 2

ThreadsOff ==
    /\ hopper = [pc |-> "off", idx |-> 0]
    /\ packet_thread = [pc |-> "off", last_processed |-> 0, num_messages |-> 0, i |-> 0]

\* the system constructed from its arguments, start() not yet called
InitRun ==
    /\ DecoderIdle
    /\ RxIdle
    /\ mqtt_connected \in BOOLEAN
    /\ PlanIdle
    /\ FusionIdle
    /\ PublisherIdle
    /\ AcqIdle
    /\ StopIdle
    /\ include_5ghz \in BOOLEAN
    /\ \E arg \in ChannelArgs : system_channels = SystemChannels(arg, include_5ghz)
    /\ running = FALSE
    /\ center_freq = DEFAULT_FREQ
    /\ freq = DEFAULT_FREQ
    /\ ThreadsOff
    /\ hop_log = <<>>
    /\ msg_debug = <<>>
    /\ detections = <<>>
    /\ tb_state = "none"
    /\ late_detections = 0
    /\ processed = <<>>
    /\ read_errors = 0

\* start(): the flow graph is created and started tuned to self.freq, then
\* self.running = True, the packet thread, and the hopper thread when the plan
\* has more than one channel
StartRun ==
    /\ ~running /\ packet_thread.pc = "off"
    /\ tb_state' = "running"
    /\ running' = TRUE
    /\ center_freq' = freq
    /\ packet_thread' = [packet_thread EXCEPT !.pc = "poll"]
    /\ hopper' = [hopper EXCEPT !.pc = IF Len(system_channels) > 1 THEN "tune" ELSE "off"]
    /\ UNCHANGED <<system_channels, include_5ghz, late_detections, processed, read_errors, freq, hop_log,
                   msg_debug, detections, outsideRun>>

\* the flow graph decodes a frame of a Remote ID beacon received on the
\* frequency the radio is tuned to, and stores it for the packet thread
FrameCaptured ==
    /\ tb_state = "running" /\ Len(msg_debug) < MaxCaptured
    /\ msg_debug' = Append(msg_debug, center_freq)
    /\ UNCHANGED <<system_channels, include_5ghz, tb_state, late_detections, processed, read_errors, running,
                   center_freq, freq, hopper, hop_log, packet_thread, detections,
                   outsideRun>>

\* _channel_hopper: freq = self.channels[idx % len(self.channels)];
\* self.usrp_source.set_center_freq(freq, 0)
HopperTunes ==
    /\ running /\ hopper.pc = "tune" /\ hopper.idx < MaxHops
    /\ center_freq' = system_channels[(hopper.idx % Len(system_channels)) + 1]
    /\ hop_log' = Append(hop_log, center_freq')
    /\ hopper' = [hopper EXCEPT !.pc = "tuned"]
    /\ UNCHANGED <<system_channels, include_5ghz, tb_state, late_detections, processed, read_errors, running,
                   freq, msg_debug, packet_thread, detections, outsideRun>>

\* _channel_hopper: set_center_freq raises; the except branch sleeps and the
\* loop tries the same channel again
HopperTuneFails ==
    /\ running /\ hopper.pc = "tune" /\ hopper.idx < MaxHops
    /\ hopper' = [hopper EXCEPT !.pc = "retry"]
    /\ UNCHANGED <<system_channels, include_5ghz, tb_state, late_detections, processed, read_errors, running,
                   center_freq, freq, hop_log, msg_debug, packet_thread, detections,
                   outsideRun>>

\* _channel_hopper: self.freq = freq, then time.sleep(self.hop_interval)
HopperSetsFreq ==
    /\ hopper.pc = "tuned"
    /\ freq' = system_channels[(hopper.idx % Len(system_channels)) + 1]
    /\ hopper' = [hopper EXCEPT !.pc = "sleep"]
    /\ UNCHANGED <<system_channels, include_5ghz, tb_state, late_detections, processed, read_errors, running,
                   center_freq, hop_log, msg_debug, packet_thread, detections,
                   outsideRun>>

\* _channel_hopper: the sleep ends; idx += 1 after a retune, not after an error
HopperWakes ==
    /\ hopper.pc \in {"sleep", "retry"}
    /\ hopper' = [pc |-> "tune", idx |-> IF hopper.pc = "sleep" THEN hopper.idx + 1
                                        ELSE hopper.idx]
    /\ UNCHANGED <<system_channels, include_5ghz, tb_state, late_detections, processed, read_errors, running,
                   center_freq, freq, hop_log, msg_debug, packet_thread, detections,
                   outsideRun>>

\* _process_packets_thread: num_messages = msg_debug.num_messages(); with new
\* messages the for loop starts at last_processed
PacketThreadPolls ==
    /\ running /\ packet_thread.pc = "poll"
    /\ Len(msg_debug) > packet_thread.last_processed
    /\ packet_thread' = [pc |-> "process", last_processed |-> packet_thread.last_processed,
                         num_messages |-> Len(msg_debug), i |-> packet_thread.last_processed]
    /\ UNCHANGED <<system_channels, include_5ghz, tb_state, late_detections, processed, read_errors, running,
                   center_freq, freq, hopper, hop_log, msg_debug, detections, outsideRun>>

\* the detection_data of _handle_remote_id for the frame stored at index i
DetectionData(i) ==
    [frequency_hz |-> freq, captured_hz |-> msg_debug[i + 1],
     detection_number |-> detection_count + 1, published |-> mqtt_connected]

\* the loop variable after message i, last_processed = num_messages after
\* the last one
AfterMessage(t) ==
    IF t.i + 1 < t.num_messages THEN [t EXCEPT !.i = t.i + 1]
    ELSE [pc |-> "poll", last_processed |-> t.num_messages,
          num_messages |-> t.num_messages, i |-> t.i + 1]

\* _process_packets_thread: msg = msg_debug.get_message(i);
\* self._process_wifi_pdu(meta, packet_bytes), which hands the frame's record
\* to _handle_remote_id
PacketThreadProcesses ==
    /\ packet_thread.pc = "process"
    /\ detection_count' = detection_count + 1
    /\ detections' = Append(detections, DetectionData(packet_thread.i))
    /\ late_detections' = late_detections + Bit(stop_pc = "stopped", 1)
    /\ processed' = Append(processed, packet_thread.i)
    /\ packet_thread' = AfterMessage(packet_thread)
    /\ UNCHANGED <<system_channels, include_5ghz, tb_state, running, center_freq, freq, read_errors,
                   hopper, hop_log, msg_debug, rxOther, mqtt_connected, outsideRunRx,
                   stopVars>>

MaxReadErrors == 1

\* _process_packets_thread: _process_wifi_pdu raises for message i; the inner
\* except logs the error and the for loop goes on with the next message
PacketThreadHandlerRaises ==
    /\ packet_thread.pc = "process"
    /\ processed' = Append(processed, packet_thread.i)
    /\ packet_thread' = AfterMessage(packet_thread)
    /\ UNCHANGED <<system_channels, include_5ghz, tb_state, late_detections, read_errors,
                   running, center_freq, freq, hopper, hop_log, msg_debug, detections,
                   outsideRun>>

\* _process_packets_thread: msg_debug.get_message(i) raises; the outer except
\* logs the error and sleeps, last_processed keeps its value, and the while
\* loop polls again
PacketThreadReadFails ==
    /\ packet_thread.pc = "process" /\ read_errors < MaxReadErrors
    /\ read_errors' = read_errors + 1
    /\ packet_thread' = [packet_thread EXCEPT !.pc = "poll"]
    /\ UNCHANGED <<system_channels, include_5ghz, tb_state, late_detections, processed,
                   running, center_freq, freq, hopper, hop_log, msg_debug, detections,
                   outsideRun>>

NextRun ==
    \/ StartRun
    \/ FrameCaptured
    \/ HopperTunes
    \/ HopperTuneFails
    \/ HopperSetsFreq
    \/ HopperWakes
    \/ PacketThreadPolls
    \/ PacketThreadProcesses
    \/ PacketThreadHandlerRaises
    \/ PacketThreadReadFails

SpecRun == InitRun /\ [][NextRun]_vars

\* C14: under every interleaving of the hopper and the packet thread, the
\* frequency_hz of every published detection is the frequency the radio was
\* tuned to when its frame was captured.
FrequencyOfCapture ==
    \A k \in 1..Len(detections) :
        detections[k].published => detections[k].frequency_hz = detections[k].captured_hz

\* the retunes so far follow the plan position by position
HopsFollowPlan ==
    \A k \in 1..Len(hop_log) :
        hop_log[k] = system_channels[((k - 1) % Len(system_channels)) + 1]

\* C20: the hopper cycles the plan in order: it retunes to each channel of
\* the plan in turn and returns to the first after the last, so between two
\* consecutive visits of a channel every other channel of the plan is visited
\* exactly once.
HopperCyclesPlan ==
    /\ HopsFollowPlan
    /\ \A a \in 1..Len(hop_log), b \in 1..Len(hop_log) :
          (a < b /\ hop_log[a] = hop_log[b]
             /\ \A k \in (a + 1)..(b - 1) : hop_log[k] # hop_log[a])
          => \A c \in 1..Len(system_channels) :
                system_channels[c] # hop_log[a]
                => Cardinality({k \in (a + 1)..(b - 1) : hop_log[k] = system_channels[c]}) = 1


\* the running system under a fair scheduler: start() runs, the threads it
\* started keep taking steps, and a retune that is tried again and again
\* eventually succeeds
SpecRunLive ==
    /\ SpecRun
    /\ WF_vars(StartRun)
    /\ SF_vars(HopperTunes)
    /\ WF_vars(HopperSetsFreq)
    /\ WF_vars(HopperWakes)

\* C26: for every non-empty plan, the running system eventually tunes the
\* radio to each frequency of the plan (the first MaxHops of them, which the
\* hops explored reach), also when the plan holds one channel that is not the
\* initial centre frequency.
EveryPlanChannelTuned ==
    \A k \in 1..MaxHops :
        k <= Len(system_channels)
        => <>(k <= Len(system_channels) /\ center_freq = system_channels[k])

\* C22: the packet thread handles the stored frames in the order of the
\* store and each exactly once, without skipping or repeating one, also when
\* handling a frame or reading the store raises.
FramesHandledOnceInOrder ==
    \A k \in 1..Len(processed) : processed[k] = k - 1

---------------------------------------------------------------------------
(* Continuous acquisition into the bounded sample queue                    *)
(* (src/src/uhd_acquisition.py)                                            *)

\* queue.Queue(maxsize=10)
QUEUE_MAXSIZE == 10

MaxBlocks == 12

InitAcq ==
    /\ DecoderIdle
    /\ RxIdle
    /\ mqtt_connected = FALSE
    /\ PlanIdle
    /\ FusionIdle
    /\ PublisherIdle
    /\ RunIdle
    /\ AcqIdle
    /\ StopIdle

\* start_continuous_acquisition: nothing when already running, otherwise
\* is_running = True and the thread starts
StartContinuousAcquisition ==
    /\ ~is_running /\ acquisition.pc = "off"
    /\ is_running' = TRUE
    /\ acquisition' = [acquisition EXCEPT !.pc = "acquire"]
    /\ UNCHANGED <<data_queue, overflows, outsideAcq>>

\* acquisition_thread: samples = self.acquire_samples(...); None on an error
AcquireSamples ==
    /\ is_running /\ acquisition.pc = "acquire" /\ acquisition.block < MaxBlocks
    /\ \E received \in BOOLEAN :
          acquisition' = [pc |-> IF received THEN "put" ELSE "acquire",
                          block |-> acquisition.block + 1]
    /\ UNCHANGED <<is_running, data_queue, overflows, outsideAcq>>

\* data_queue.put(samples, timeout=1.0) finds or gets a free slot
PutSamples ==
    /\ acquisition.pc = "put" /\ Len(data_queue) < QUEUE_MAXSIZE
    /\ data_queue' = Append(data_queue, acquisition.block)
    /\ acquisition' = [acquisition EXCEPT !.pc = "acquire"]
    /\ UNCHANGED <<is_running, overflows, outsideAcq>>

\* what the put on a full queue did after its timeout: the queue is left as
\* it was and the new block is lost
PutOutcome(q, block) ==
    [queue |-> q, oldest |-> Head(q), put |-> block, lost |-> block]

\* data_queue.put(samples, timeout=1.0) waits one second on a full queue,
\* raises queue.Full, and the thread logs a warning
PutTimesOut ==
    /\ acquisition.pc = "put" /\ Len(data_queue) = QUEUE_MAXSIZE
    /\ data_queue' = PutOutcome(data_queue, acquisition.block).queue
    /\ overflows' = Append(overflows, [oldest |-> Head(data_queue),
                                       put |-> acquisition.block,
                                       lost |-> PutOutcome(data_queue, acquisition.block).lost])
    /\ acquisition' = [acquisition EXCEPT !.pc = "acquire"]
    /\ UNCHANGED <<is_running, outsideAcq>>

\* get_samples: the consumer takes the oldest block
GetSamples ==
    /\ data_queue # <<>>
    /\ data_queue' = Tail(data_queue)
    /\ UNCHANGED <<is_running, acquisition, overflows, outsideAcq>>

NextAcq ==
    \/ StartContinuousAcquisition
    \/ AcquireSamples
    \/ PutSamples
    \/ PutTimesOut
    \/ GetSamples

SpecAcq == InitAcq /\ [][NextAcq]_vars

\* C15: the queue never holds more than 10 blocks, and a put on a full queue
\* drops the oldest queued block and enqueues the new one.
OverflowDropsOldest ==
    /\ Len(data_queue) <= 10
    /\ \A k \in 1..Len(overflows) :
          overflows[k].lost = overflows[k].oldest /\ overflows[k].lost # overflows[k].put

---------------------------------------------------------------------------
(* Shutdown of the BLE + Wi-Fi orchestrator (src/src/auto_mode_detector.py, *)
(* BLERemoteIDScanner.stop, GNURadioWiFiRemoteIDSystem.stop)                *)

MaxScans == 2

\* AutoModeRIDOrchestrator constructed with the default configuration, the
\* publisher shared by the BLE scanner and the Wi-Fi system
InitStop ==
    /\ DecoderIdle
    /\ RxIdle
    /\ mqtt_connected = FALSE
    /\ PlanIdle
    /\ FusionIdle
    /\ PublisherIdle
    /\ AcqIdle
    /\ RunIdle
    /\ StopIdle

\* AutoModeRIDOrchestrator.start(): _init_mqtt connects, ble.start() sets
\* _running and starts the scan loop, and wifi.start is given its own thread
AutoStart ==
    /\ stop_pc = "off"
    /\ stop_pc' = "run"
    /\ mqtt_connected' \in BOOLEAN
    /\ ble_running' = TRUE
    /\ ble_thread' = [ble_thread EXCEPT !.pc = "discover"]
    /\ UNCHANGED <<rxOther, detection_count, runVars, outsideRunRx>>

\* the Wi-Fi thread runs GNURadioWiFiRemoteIDSystem.start
WifiThreadStarts == stop_pc # "off" /\ StartRun

\* _scan_loop: BleakScanner.discover(timeout=scan_interval) returns, with or
\* without an advertisement that decodes to a record; the loop then handles
\* it or tests self._running again
BleScanReturns ==
    /\ ble_thread.pc = "discover" /\ ble_thread.scans < MaxScans
    /\ \E found \in BOOLEAN :
          ble_thread' = [ble_thread EXCEPT
                            !.pc = IF found THEN "handle"
                                   ELSE IF ble_running THEN "discover" ELSE "exited",
                            !.scans = @ + 1,
                            !.failures = 0]
    /\ UNCHANGED <<ble_running, stop_pc, rxVars, runVars, outsideRunRx>>

\* _scan_loop: _handle_adv decodes the advertisement and _publish emits the
\* record; then "while self._running"
BleHandles ==
    /\ ble_thread.pc = "handle"
    /\ late_detections' = late_detections + Bit(stop_pc = "stopped", 1)
    /\ ble_thread' = [ble_thread EXCEPT !.pc = IF ble_running THEN "discover" ELSE "exited",
                                        !.handled = @ + 1]
    /\ UNCHANGED <<system_channels, include_5ghz, tb_state, running, center_freq, freq, hopper,
                   hop_log, msg_debug, packet_thread, detections, processed, read_errors,
                   ble_running, stop_pc,
                   rxVars, outsideRunRx>>

\* the argument of asyncio.sleep in the except branch of _scan_loop, seconds
BLE_ERROR_DELAY_S == 1

\* _scan_loop: BleakScanner.discover raises; the except branch starts
\* asyncio.sleep(1.0). delays logs each sleep with the number of consecutive
\* failures it follows
BleScanFails ==
    /\ ble_thread.pc = "discover" /\ ble_thread.scans < MaxScans
    /\ ble_thread' = [ble_thread EXCEPT
                         !.pc = "error_sleep",
                         !.scans = @ + 1,
                         !.failures = @ + 1,
                         !.delays = Append(@, [failures |-> ble_thread.failures + 1,
                                               delay |-> BLE_ERROR_DELAY_S])]
    /\ UNCHANGED <<ble_running, stop_pc, rxVars, runVars, outsideRunRx>>

\* _scan_loop: the sleep ends; then "while self._running"
BleSleepEnds ==
    /\ ble_thread.pc = "error_sleep"
    /\ ble_thread' = [ble_thread EXCEPT !.pc = IF ble_running THEN "discover" ELSE "exited"]
    /\ UNCHANGED <<ble_running, stop_pc, rxVars, runVars, outsideRunRx>>

\* _process_packets_thread: "while self.running" ends the thread
PacketThreadExits ==
    /\ packet_thread.pc = "poll" /\ ~running /\ stop_pc # "off"
    /\ packet_thread' = [packet_thread EXCEPT !.pc = "exited"]
    /\ UNCHANGED <<system_channels, include_5ghz, tb_state, late_detections, processed, read_errors, running,
                   center_freq, freq, hopper, hop_log, msg_debug, detections, outsideRun>>

\* _channel_hopper: "while self.running" ends the thread
HopperExits ==
    /\ hopper.pc = "tune" /\ ~running /\ stop_pc # "off"
    /\ hopper' = [hopper EXCEPT !.pc = "exited"]
    /\ UNCHANGED <<system_channels, include_5ghz, tb_state, late_detections, processed, read_errors, running,
                   center_freq, freq, hop_log, msg_debug, packet_thread, detections,
                   outsideRun>>

\* AutoModeRIDOrchestrator.stop() -> ble.stop(): self._running = False
StopBle ==
    /\ stop_pc = "run"
    /\ ble_running' = FALSE
    /\ stop_pc' = "ble_join"
    /\ UNCHANGED <<ble_thread, rxVars, runVars, outsideRunRx>>

\* ble.stop(): self._thread.join(timeout=2.0) returns, the scan loop ended
\* or, a discover of scan_interval = 5 s being under way, still alive
BleJoinReturns ==
    /\ stop_pc = "ble_join"
    /\ stop_pc' = "wifi_stop"
    /\ UNCHANGED <<ble_running, ble_thread, rxVars, runVars, outsideRunRx>>

\* wifi.stop(): self.running = False
WifiStopClearsRunning ==
    /\ stop_pc = "wifi_stop"
    /\ running' = FALSE
    /\ stop_pc' = "tb_stop"
    /\ UNCHANGED <<system_channels, include_5ghz, tb_state, late_detections, processed, read_errors, center_freq, freq,
                   hopper, hop_log, msg_debug, packet_thread, detections, ble_running,
                   ble_thread, rxVars, outsideRunRx>>

\* wifi.stop(): if self.tb: self.tb.stop(); self.tb.wait()
WifiStopStopsFlowgraph ==
    /\ stop_pc = "tb_stop"
    /\ tb_state' = IF tb_state = "running" THEN "stopped" ELSE tb_state
    /\ stop_pc' = "disconnect"
    /\ UNCHANGED <<system_channels, include_5ghz, late_detections, processed, read_errors, running, center_freq, freq,
                   hopper, hop_log, msg_debug, packet_thread, detections, ble_running,
                   ble_thread, rxVars, outsideRunRx>>

\* wifi.stop(): self.mqtt_publisher.disconnect() when connected; the
\* orchestrator's own disconnect then finds the publisher disconnected
ReleaseConnection ==
    /\ stop_pc = "disconnect"
    /\ mqtt_connected' = FALSE
    /\ stop_pc' = "stopped"
    /\ UNCHANGED <<ble_running, ble_thread, rxOther, detection_count, runVars, outsideRunRx>>

NextStop ==
    \/ AutoStart
    \/ WifiThreadStarts
    \/ FrameCaptured
    \/ HopperTunes
    \/ HopperSetsFreq
    \/ HopperWakes
    \/ PacketThreadPolls
    \/ PacketThreadProcesses
    \/ BleScanReturns
    \/ BleHandles
    \/ BleScanFails
    \/ BleSleepEnds
    \/ PacketThreadExits
    \/ HopperExits
    \/ StopBle
    \/ BleJoinReturns
    \/ WifiStopClearsRunning
    \/ WifiStopStopsFlowgraph
    \/ ReleaseConnection

SpecStop == InitStop /\ [][NextStop]_vars

WorkerRuns(thread_pc) == thread_pc \notin {"off", "exited"}

\* C18: once stop() has released the connection, the flow graph and the BLE
\* scan loop have stopped, no packet or hopper thread is still running, and
\* no record is handled any more.
SourcesStoppedBeforeRelease ==
    stop_pc = "stopped"
    => /\ tb_state # "running"
       /\ ~WorkerRuns(ble_thread.pc)
       /\ ~WorkerRuns(packet_thread.pc)
       /\ ~WorkerRuns(hopper.pc)
       /\ late_detections = 0

\* C27: a stop() is not lost: once stop() has returned, the Wi-Fi system's
\* running flag never becomes true again and no packet or hopper thread is
\* started, also when stop() ran while the Wi-Fi thread had not yet reached
\* start().
StopIsNotLost ==
    [][stop_pc = "stopped"
         => /\ running' => running
            /\ WorkerRuns(packet_thread'.pc) => WorkerRuns(packet_thread.pc)
            /\ WorkerRuns(hopper'.pc) => WorkerRuns(hopper.pc)]_vars

\* the restart delay grows from one failure to the next of the same run of
\* failures, until it reaches the 30 s bound
DelayGrows(earlier, later) ==
    later.failures = earlier.failures + 1 => (later.delay > earlier.delay \/ later.delay = 30)

\* C19: after an adapter error the scan loop restarts after a delay between
\* 1 s and 30 s that grows with the number of consecutive failures.
BackoffGrowsWithFailures ==
    \A k \in 1..Len(ble_thread.delays) :
        /\ 1 <= ble_thread.delays[k].delay /\ ble_thread.delays[k].delay <= 30
        /\ k > 1 => DelayGrows(ble_thread.delays[k - 1], ble_thread.delays[k])

---------------------------------------------------------------------------
(* fuse_detection_data on the dictionaries of RemoteIDData.to_dict()       *)
(* (src/src/data_fusion.py, src/src/remote_id_decoder.py)                  *)

\* the position, velocity and operator entries of RemoteIDData.to_dict():
\* every key is present, its value None when the field is not set
ToDict(rec) ==
    [uas_id |-> rec.uas_id,
     position |-> [latitude |-> rec.latitude, longitude |-> rec.longitude,
                   altitude_msl |-> rec.altitude_msl, altitude_agl |-> rec.altitude_agl,
                   height |-> rec.height],
     velocity |-> [speed |-> rec.speed, direction |-> rec.direction,
                   vertical_speed |-> rec.vertical_speed],
     operator |-> [latitude |-> rec.operator_latitude, longitude |-> rec.operator_longitude,
                   altitude |-> rec.operator_altitude]]

\* records whose fields are each set or not; positions in 1e-4 degree, the
\* aircraft at the centre of the first zone, the operator at that of the second
FusionRecords ==
    [uas_id : {None, Some(<<68, 74, 73>>)},
     latitude : {None, Some(123714)}, longitude : {Some(-15197)},
     altitude_msl : {None, Some(100)}, altitude_agl : {None, Some(121)},
     height : {None, Some(45)},
     speed : {None, Some(25)}, direction : {None, Some(87)},
     vertical_speed : {None, Some(2)},
     operator_latitude : {None, Some(123532)}, operator_longitude : {Some(-15124)},
     operator_altitude : {None, Some(0)}]

\* float(x): TypeError on None
FloatRaises(o) == o = None

\* the position branch: entered when latitude and longitude are truthy;
\* float() of altitude_msl, altitude_agl and height, whose keys to_dict()
\* always provides
FusePosition(position) ==
    IF TruthyNum(position.latitude) /\ TruthyNum(position.longitude)
    THEN IF FloatRaises(position.altitude_msl) \/ FloatRaises(position.altitude_agl)
            \/ FloatRaises(position.height)
         THEN [error |-> Some("TypeError"), position |-> None]
         ELSE [error |-> None,
               position |-> Some([latitude |-> Val(position.latitude),
                                  longitude |-> Val(position.longitude),
                                  altitude_agl |-> Val(position.altitude_agl)])]
    ELSE [error |-> None, position |-> None]

\* the velocity branch: entered when the speed is not None; float() of
\* direction and vertical_speed
FuseVelocity(velocity) ==
    IF velocity.speed # None
    THEN IF FloatRaises(velocity.direction) \/ FloatRaises(velocity.vertical_speed)
         THEN [error |-> Some("TypeError"), speed |-> None]
         ELSE [error |-> None, speed |-> velocity.speed]
    ELSE [error |-> None, speed |-> None]

\* the operator branch: entered when the operator position is truthy;
\* float() of the operator altitude, then
\* fusion_result['remote_id']['position'], a KeyError without a position
FuseOperator(operator, position) ==
    IF TruthyNum(operator.latitude) /\ TruthyNum(operator.longitude)
    THEN IF FloatRaises(operator.altitude)
         THEN [error |-> Some("TypeError"), distance |-> None]
         ELSE IF position = None
         THEN [error |-> Some("KeyError"), distance |-> None]
         ELSE [error |-> None,
               distance |-> Some(calculate_distance(Val(position).latitude,
                                                    Val(position).longitude,
                                                    Val(operator.latitude),
                                                    Val(operator.longitude)))]
    ELSE [error |-> None, distance |-> None]

\* the first exception of the three branches in the order of the source
FirstError(p, v, o) ==
    IF p.error # None THEN p.error
    ELSE IF v.error # None THEN v.error
    ELSE o.error

\* the Remote ID section assembled from the outcomes of its three branches
FusedSection(d, p, v, o) ==
    [error |-> FirstError(p, v, o),
     remote_id |-> Some([uas_id |-> d.uas_id, position |-> p.position, speed |-> v.speed,
                         distance_to_uas_m |-> o.distance])]

\* the Remote ID section of fuse_detection_data: the exception it raises, or
\* fusion_result['remote_id']
FuseRemoteId(data) ==
    IF data = None THEN [error |-> None, remote_id |-> None]
    ELSE FusedSection(Val(data), FusePosition(Val(data).position),
                      FuseVelocity(Val(data).velocity),
                      FuseOperator(Val(data).operator,
                                   FusePosition(Val(data).position).position))

InitFuse ==
    /\ DecoderIdle
    /\ RxIdle
    /\ mqtt_connected = FALSE
    /\ PlanIdle
    /\ remote_id_data \in {None} \cup {Some(ToDict(rec)) : rec \in FusionRecords}
    /\ classification \in [is_valid : BOOLEAN]
    /\ fused_remote_id = None
    /\ threat_assessment = None
    /\ fusion_error = None
    /\ PublisherIdle
    /\ RunIdle
    /\ AcqIdle
    /\ StopIdle

\* the keys of fusion_result['metadata'] while the dictionary that will
\* replace it is being built: those of the {} of the initial structure
MetadataKeys == {}

\* _compute_overall_quality(fusion_result), called inside the metadata
\* literal, reads fusion_result['metadata']['has_remote_id']
ComputeOverallQualityRaises == "has_remote_id" \notin MetadataKeys

\* the call after its Remote ID section f: the exception of that section,
\* or the threat assessment of the fused section and then the metadata
\* section
FusionReturns(f) ==
    /\ fusion_error' = IF f.error # None THEN f.error
                       ELSE IF ComputeOverallQualityRaises THEN Some("KeyError")
                       ELSE None
    /\ fused_remote_id' = IF f.error = None THEN f.remote_id ELSE fused_remote_id
    /\ threat_assessment' = IF f.error = None
                            THEN Some(assess_threat(f.remote_id, classification))
                            ELSE threat_assessment

\* fuse_detection_data(detection_features, classification_result,
\* remote_id_data)
FuseDetectionData ==
    /\ threat_assessment = None /\ fusion_error = None
    /\ FusionReturns(FuseRemoteId(remote_id_data))
    /\ UNCHANGED <<classification, remote_id_data, outsideFusion>>

NextFuse == FuseDetectionData

SpecFuse == InitFuse /\ [][NextFuse]_vars

\* C25: fuse_detection_data completes without raising and returns a threat
\* assessment for every dictionary RemoteIDData.to_dict() can produce.
FusionNeverRaises == fusion_error = None


---------------------------------------------------------------------------
(* BLERemoteIDScanner: start() and stop() called in any order               *)

\* the threads start() may create in one run explored
MaxStarts == 3

outsideScanner == <<decVars, rxVars, planVars, fusionVars, mqttVars, runVars, acqVars,
                    stopVars>>

\* a scanner as constructed, with every other component idle
InitBle ==
    /\ DecoderIdle
    /\ RxIdle
    /\ mqtt_connected = FALSE
    /\ PlanIdle
    /\ AuxIdle

\* self._thread is the thread the last start() created
ThreadIsAlive(s) == s.loops # <<>> /\ s.loops[Len(s.loops)].pc # "exited"

\* start(): returns when self._running; otherwise self._running = True and a
\* new thread runs _run_loop, which enters "while self._running"
ScannerStart ==
    /\ scanner.caller = "idle" /\ Len(scanner.loops) < MaxStarts
    /\ scanner' = IF scanner.running THEN scanner
                  ELSE [scanner EXCEPT !.running = TRUE, !.loops = Append(@, [pc |-> "test", failed |-> FALSE])]
    /\ UNCHANGED outsideScanner

\* stop(): self._running = False; a thread that is alive is joined
ScannerStop ==
    /\ scanner.caller = "idle"
    /\ scanner' = [scanner EXCEPT !.running = FALSE,
                                  !.caller = IF ThreadIsAlive(scanner) THEN "join" ELSE "idle"]
    /\ UNCHANGED outsideScanner

\* stop(): self._thread.join(timeout=2.0) returns: the thread has ended, or
\* the 2 s have passed while its discover of scan_interval = 5 s is under way
ScannerJoinReturns ==
    /\ scanner.caller = "join"
    /\ scanner.loops[Len(scanner.loops)].pc \in {"exited", "discover"}
    /\ scanner' = [scanner EXCEPT !.caller = "idle"]
    /\ UNCHANGED outsideScanner

\* _scan_loop of thread n: "while self._running"
ScanLoopTests(n) ==
    /\ scanner.loops[n].pc = "test"
    /\ scanner' = [scanner EXCEPT !.loops[n].pc = IF scanner.running THEN "discover" ELSE "exited"]
    /\ UNCHANGED outsideScanner

\* _scan_loop of thread n: BleakScanner.discover returns and the
\* advertisements are handled
ScanLoopDiscovers(n) ==
    /\ scanner.loops[n].pc = "discover"
    /\ scanner' = [scanner EXCEPT !.loops[n] = [pc |-> "test", failed |-> FALSE]]
    /\ UNCHANGED outsideScanner

\* _scan_loop of thread n: discover raises, the except branch sleeps
ScanLoopDiscoverRaises(n) ==
    /\ scanner.loops[n].pc = "discover"
    /\ scanner' = [scanner EXCEPT !.loops[n] = [pc |-> "error_sleep", failed |-> TRUE]]
    /\ UNCHANGED outsideScanner

\* _scan_loop of thread n: asyncio.sleep(1.0) ends
ScanLoopSleepEnds(n) ==
    /\ scanner.loops[n].pc = "error_sleep"
    /\ scanner' = [scanner EXCEPT !.loops[n].pc = "test"]
    /\ UNCHANGED outsideScanner

NextBle ==
    \/ ScannerStart
    \/ ScannerStop
    \/ ScannerJoinReturns
    \/ \E n \in 1..Len(scanner.loops) : ScanLoopTests(n)
    \/ \E n \in 1..Len(scanner.loops) : ScanLoopDiscovers(n)
    \/ \E n \in 1..Len(scanner.loops) : ScanLoopDiscoverRaises(n)
    \/ \E n \in 1..Len(scanner.loops) : ScanLoopSleepEnds(n)

SpecBle == InitBle /\ [][NextBle]_vars

\* the scan loops that have not ended
ActiveLoops == {n \in 1..Len(scanner.loops) : scanner.loops[n].pc # "exited"}

\* C28: for every sequence of start() and stop() calls at most one scan loop
\* is active at any time, also when start() follows a stop() whose join timed
\* out during a scan.
AtMostOneScanLoop == Cardinality(ActiveLoops) <= 1

====
